---- MODULE Spec2Model ----
(***************************************************************************)
(* The event bus of Quadrium (src/src/Controller/EventManager.rs): the     *)
(* EventManager behind its Arc<Mutex<..>>, the producers and registrars    *)
(* that call push_event / register_listener while holding that mutex, the  *)
(* holders of the temporary-queue handle, and the dispatcher threads that  *)
(* launch() spawns.                                                        *)
(*                                                                         *)
(* Granularity.  A method called as event_manager.lock().unwrap().m(..)    *)
(* runs wholly under the bus-wide mutex, so it is one step guarded by the  *)
(* mutex being free.  The dispatcher closure is cut at every point where   *)
(* it holds no lock of the bus (between the statements of lines 319-334)   *)
(* and, inside update(), before and after every callback call.             *)
(***************************************************************************)
EXTENDS Integers, Sequences, FiniteSets, TLC

\* ------------------------------------------------------------------ bounds
\* A run is bounded by the number of events its producers publish (push_event
\* and push_event_in_tmp_queue from outside a listener, together), of
\* register_listener calls and of launch calls (each spawns one dispatcher
\* thread).  The events the listeners publish come on top of these.
\* Runs of the application as written, which calls launch once, with
\* MaxEvents events and FewListeners listeners:
MaxEvents == 3
FewListeners == 1
\* Runs in which launch is called up to MaxDispatchers times, with
\* MaxEventsShared events and MaxListeners listeners:
MaxDispatchers == 2
MaxEventsShared == 2
MaxListeners == 2
\* Runs checked for progress under fair scheduling:
LiveEvents == 2
LiveListeners == 2
\* Calls of read_u128_from_file: the bytes of the test's file that are replaced.
MaxReplaced == 2

\* The application calls EventManager::launch once.
AppLaunchCalls == 1

\* --------------------------------------------------------------- constants
EAskRetrieveMusicInformation == "EAskRetrieveMusicInformation"
EMusicInformationRetrieved == "EMusicInformationRetrieved"
\* The two kinds of QuEventType the application uses.
QuEventType == {EAskRetrieveMusicInformation, EMusicInformationRetrieved}

\* What a registered closure does when it is called: nothing on the bus, or
\* one push_event_in_tmp_queue of an event of the given kind.
NoDefer == "none"
Closures == {NoDefer, EMusicInformationRetrieved}
\* A closure that breaks the rule of the documentation (lines 146 and 215):
\* it captured a clone of the Arc<Mutex<EventManager>> and publishes with
\* event_manager.lock().unwrap().push_event(..) from inside the listener.
DirectPublish == "direct"

\* Payloads, as the key map convert_to_key_map() gives for them (the names of
\* the fields, in order).  A request carries the path of the file to read; a
\* producer may also publish a payload with no field or with two.
NoField == <<>>
PathFile == <<"path_file">>
TwoFields == <<"path_file", "other">>
Payloads == {NoField, PathFile, TwoFields}
\* AudioInformation::convert_to_key_map
AudioInformation ==
    <<"music_name", "music_type", "artist_name", "track_number", "album", "date",
      "duration", "track_rate", "channel_count", "bits_per_sample">>

\* What std::fs::File::open gives for the path of a request
\* (flac_reader.rs line 474).
Opens == "opens"
CouldNotOpen == "could not open"

\* A run: its bounds, the payloads its producers publish, the closures its
\* registrars register and what becomes of the files the requests name.
Bound(e, l, d) ==
    [events |-> e, listeners |-> l, dispatchers |-> d,
     payloads |-> {PathFile}, closures |-> Closures, files |-> {Opens}]
\* Some requests name a file that cannot be opened.
AnyFile(b) == [b EXCEPT !.files = {Opens, CouldNotOpen}]
\* The producers also publish requests that do not have exactly one field.
AnyPayload(b) == [b EXCEPT !.payloads = Payloads]
\* The registrars also register closures that publish with push_event.
AnyClosure(b) == [b EXCEPT !.closures = Closures \cup {DirectPublish}]
Scenarios == {AnyFile(Bound(MaxEvents, FewListeners, AppLaunchCalls)),
              Bound(MaxEventsShared, MaxListeners, MaxDispatchers),
              AnyFile(AnyClosure(Bound(MaxEventsShared, FewListeners, MaxDispatchers)))}
LiveScenarios == {Bound(LiveEvents, LiveListeners, AppLaunchCalls)}
PayloadScenarios == {AnyPayload(Bound(LiveEvents, LiveListeners, AppLaunchCalls))}

Dispatchers == 1..MaxDispatchers

\* The locks of the bus: the Mutex around the EventManager, the Mutex of each
\* of its three guarded fields, and the two of the temporary queue.  (The
\* Mutex around each callback is callback_lock.)
BusLocks == {"this", "m_event_list", "m_register_event_listeners", "m_need_update",
             "m_tmp_event_queue", "m_tmp_event_queue.m_event_list"}

VARIABLES
    limit,                       \* the bounds of this run, fixed at the start
    reader,                      \* a call of read_u128_from_file: its file and locals
    conversion,                  \* a call of AudioInformation::convert_to_key_map
    threads,                     \* the threads lock by lock: where each is, who owns each lock
    \* ---- EventManager fields
    m_event_list,                \* Pending Queue: Seq of [id, m_event_type]
    m_register_event_listeners,  \* Seq of [m_event_type, callbacks: Seq of listener ids]
    m_need_update,               \* the bool of the (Mutex<bool>, Condvar) pair
    m_stop_update,               \* the stop flag
    m_tmp_event_queue,           \* Deferred Queue: Seq of [id, m_event_type]
    \* ---- ownership and locks
    held,                        \* the locks of the bus each dispatcher thread holds
    callback_lock,               \* listener ids whose Mutex<closure> is held
    dropped,                     \* the EventManager value was consumed by stop(self)
    \* ---- dispatcher threads (one per launch call)
    pc,                          \* position of each dispatcher closure
    batch_calls,                 \* the (event, callback) calls update() still has to make
    not_empty,                   \* the value of the right-hand side of line 333, <<>> when none
    current_call,                \* the call in progress, <<>> when none
    \* ---- history
    closures,                    \* listener id -> [m_event_type, defers]: the register calls
    events,                      \* event id -> [m_event_type, origin, listeners]: the publish calls
    stage,                       \* event id -> where the event is on its way through the bus
    log,                         \* the callback calls made, in order: Seq of [cb, ev]
    owed                         \* <<cb, ev>>: cb was registered for ev's kind while ev
                                 \* was pending and every dispatcher was parked

vars == <<limit, reader, conversion, threads, not_empty, m_event_list, m_register_event_listeners, m_need_update, m_stop_update,
          m_tmp_event_queue, held, callback_lock, dropped, pc, batch_calls,
          current_call, closures, events, stage, log, owed>>

bus_vars == <<m_event_list, m_register_event_listeners, m_need_update, m_stop_update,
              m_tmp_event_queue>>
history_vars == <<closures, events, stage, log, owed>>

\* None of the locks is held by a thread that is between two of its steps.  A
\* producer, a registrar or a holder of the temporary-queue handle takes and
\* releases its locks inside its one step.
Free(locks) == \A d \in Dispatchers : held[d] \cap locks = {}

\* ---------------------------------------------------------------- helpers
Min(S) == CHOOSE x \in S : \A y \in S : x <= y

\* QuEvent { m_event_type, m_event_arg }; id stands for the identity of the
\* Arc'ed payload, which the bus never reads; m_event_arg is its key map.
QuEvent(id, event_type, event_arg) ==
    [id |-> id, m_event_type |-> event_type, m_event_arg |-> event_arg]

\* ------------------------------------------------------------ Condvar
\* Condvar::notify_one: one thread parked in wait() is woken; with no thread
\* parked the notification is dropped.  The result is the set of possible
\* next values of pc.
notify_one(p) ==
    LET waiting == {d \in Dispatchers : p[d] = "waiting"}
    IN  IF waiting = {} THEN {p}
        ELSE {[p EXCEPT ![d] = "woken"] : d \in waiting}

\* ------------------------------------------- utils/file_reader.rs: u128
\* A u128 is kept as its sixteen bytes, the least significant first, so that
\* the arithmetic below is the arithmetic of the 128-bit type.
U128Bytes == 16
U128Zero == [k \in 1..U128Bytes |-> 0]

\* au128_buffer[i] as u128
AsU128(u8) == [k \in 1..U128Bytes |-> IF k = 1 THEN u8 ELSE 0]

ByteAt(v, k) == IF k \in 1..U128Bytes THEN v[k] ELSE 0

\* v << n and v >> n for n < 128 (bits shifted out are lost)
Shl(v, n) ==
    LET q == n \div 8
        r == n % 8
    IN  [k \in 1..U128Bytes |->
            ((ByteAt(v, k - q) * 2^r) % 2^8) + (ByteAt(v, k - q - 1) \div 2^(8 - r))]
Shr(v, n) ==
    LET q == n \div 8
        r == n % 8
    IN  [k \in 1..U128Bytes |->
            (ByteAt(v, k + q) \div 2^r) + ((ByteAt(v, k + q + 1) * 2^(8 - r)) % 2^8)]

\* v + w modulo 2^128
RECURSIVE CarryInto(_, _, _)
CarryInto(v, w, k) ==
    IF k = 1 THEN 0 ELSE (v[k - 1] + w[k - 1] + CarryInto(v, w, k - 1)) \div 2^8
Add(v, w) == [k \in 1..U128Bytes |-> (v[k] + w[k] + CarryInto(v, w, k)) % 2^8]

\* v & 0xFF
LowByte(v) == v[1]

EndianShift_BigEndian(v, n) == Shr(v, n)

\* Lines 161-168: on a target that is not big-endian, u128_valuetmp <<= 8 * i
EndianShift(v, n) == Shl(v, n)

\* The bus specifications make no call of read_u128_from_file.
NotReading ==
    [pc |-> "none", file |-> <<>>, au128_buffer |-> <<>>, i |-> 0, u128_value |-> <<>>]

\* Line 144: file.read_exact(&mut au128_buffer) on a file of at least
\* sixteen bytes.
ReadExact ==
    /\ reader.pc = "read_exact"
    /\ reader' = [reader EXCEPT !.pc = "loop",
                                !.au128_buffer = SubSeq(reader.file, 1, U128Bytes)]
    /\ UNCHANGED <<limit, conversion, threads, not_empty, bus_vars, held, callback_lock, dropped, pc, batch_calls,
                   current_call, history_vars>>

\* Lines 165-170: one turn of for i in 0..16
LittleEndianStep ==
    /\ reader.pc = "loop"
    /\ reader.i < U128Bytes
    /\ LET u128_valuetmp == EndianShift(AsU128(reader.au128_buffer[reader.i + 1]),
                                        8 * reader.i)
       IN  reader' = [reader EXCEPT !.u128_value = Add(@, u128_valuetmp),
                                    !.i = @ + 1]
    /\ UNCHANGED <<limit, conversion, threads, not_empty, bus_vars, held, callback_lock, dropped, pc, batch_calls,
                   current_call, history_vars>>

\* Line 172: return u128_value
ReaderReturn ==
    /\ reader.pc = "loop"
    /\ reader.i = U128Bytes
    /\ reader' = [reader EXCEPT !.pc = "returned"]
    /\ UNCHANGED <<limit, conversion, threads, not_empty, bus_vars, held, callback_lock, dropped, pc, batch_calls,
                   current_call, history_vars>>

\* ------------------------------------ AudioInformation::convert_to_key_map
\* m_rate is a u32: two 16-bit halves, so that its whole range is covered.
U16 == 65536
AsU32(hi, lo) == [hi |-> hi, lo |-> lo]

Digits == <<"0", "1", "2", "3", "4", "5", "6", "7", "8", "9">>

\* The base of the Display implementation of the integers.
Base == 10

\* u8::to_string: the decimal digits, the most significant first, with no
\* leading zero.
RECURSIVE U8ToString(_)
U8ToString(n) ==
    IF n < Base THEN <<Digits[n + 1]>>
    ELSE U8ToString(n \div Base) \o <<Digits[(n % Base) + 1]>>

\* u32::to_string, by long division of the two halves.
RECURSIVE U32ToString(_)
U32ToString(v) ==
    LET low == (v.hi % Base) * U16 + v.lo
        quotient == AsU32(v.hi \div Base, low \div Base)
        digit == <<Digits[(low % Base) + 1]>>
    IN  IF quotient = AsU32(0, 0) THEN digit
        ELSE U32ToString(quotient) \o digit

\* QuAvailableTypeInEvent::String
String == "String"

convert_to_key_map_NoBitsPerSample(self) ==
    <<<<"music_name", String, self.m_str_music_name>>,
      <<"music_type", String, self.m_str_music_type>>,
      <<"artist_name", String, self.m_str_artist_name>>,
      <<"track_number", String, self.m_str_tracknumber>>,
      <<"album", String, self.m_str_album>>,
      <<"date", String, self.m_str_date>>,
      <<"duration", String, self.m_str_duration>>,
      <<"track_rate", String, U32ToString(self.m_rate)>>,
      <<"channel_count", String, U8ToString(self.m_channel_count)>>>>

\* audio_reader/mod.rs lines 45-60: the ten push calls, in order.
convert_to_key_map(self) ==
    <<<<"music_name", String, self.m_str_music_name>>,
      <<"music_type", String, self.m_str_music_type>>,
      <<"artist_name", String, self.m_str_artist_name>>,
      <<"track_number", String, self.m_str_tracknumber>>,
      <<"album", String, self.m_str_album>>,
      <<"date", String, self.m_str_date>>,
      <<"duration", String, self.m_str_duration>>,
      <<"track_rate", String, U32ToString(self.m_rate)>>,
      <<"channel_count", String, U8ToString(self.m_channel_count)>>,
      <<"bits_per_sample", String, U8ToString(self.m_bits_per_sample)>>>>

NotConverting == [pc |-> "none"]

\* A call of convert_to_key_map returns.
ConvertToKeyMap ==
    /\ conversion.pc = "called"
    /\ conversion' = [conversion EXCEPT !.pc = "returned",
                                        !.key_map = convert_to_key_map(conversion.self)]
    /\ UNCHANGED <<limit, reader, threads, not_empty, bus_vars, held, callback_lock, dropped,
                   pc, batch_calls, current_call, history_vars>>

\* ------------------------------------------------------------ Mutex
\* A thread that panics while it holds the guard of a std::sync::Mutex
\* poisons it: every later lock().unwrap() on it panics.  The only guards a
\* dispatcher holds across a callback are the bus-wide one and the callback's.
Poisoned_Never == FALSE

Poisoned == \E d \in Dispatchers : pc[d] = "panicked"

\* -------------------------------------------------- create_event_manager
\* No thread is followed lock by lock.
NoThreads == [at |-> <<>>]

InitWith(scenarios) ==
    /\ limit \in scenarios
    /\ m_event_list = <<>>
    /\ m_register_event_listeners = <<>>
    /\ m_need_update = FALSE
    /\ m_stop_update = FALSE
    /\ m_tmp_event_queue = <<>>
    /\ held = [d \in Dispatchers |-> {}]
    /\ callback_lock = {}
    /\ dropped = FALSE
    /\ pc = [d \in Dispatchers |-> "unlaunched"]
    /\ batch_calls = [d \in Dispatchers |-> <<>>]
    /\ not_empty = [d \in Dispatchers |-> <<>>]
    /\ current_call = [d \in Dispatchers |-> <<>>]
    /\ closures = <<>>
    /\ events = <<>>
    /\ stage = <<>>
    /\ log = <<>>
    /\ owed = {}

Init == InitWith(Scenarios)
    /\ reader = NotReading /\ conversion = NotConverting /\ threads = NoThreads
InitLive == InitWith(LiveScenarios)
    /\ reader = NotReading /\ conversion = NotConverting /\ threads = NoThreads
InitPayload == InitWith(PayloadScenarios)
    /\ reader = NotReading /\ conversion = NotConverting /\ threads = NoThreads

\* ------------------------------------------------- push_event_in_tmp_queue
TmpQueuePush_Front(queue, event) == <<event>> \o queue

\* tmp_event_queue.lock().unwrap().m_event_list.lock().unwrap().push(event)
TmpQueuePush(queue, event) == Append(queue, event)

\* The history of a publish call: the kind and the payload published, who
\* published it (for a listener: the events it was called with, else <<>>),
\* the listeners that had been registered for that kind, in the order of
\* their register_listener calls, and later, in snapshot, the number of
\* register_listener calls made before the snapshot of its batch.
RegisteredFor(event_type) ==
    LET RECURSIVE upto(_)
        upto(n) == IF n = 0 THEN <<>>
                   ELSE upto(n - 1) \o (IF closures[n].m_event_type = event_type
                                        THEN <<n>> ELSE <<>>)
    IN  upto(Len(closures))

NewEvent(origin, cause, event_type, event_arg) ==
    [m_event_type |-> event_type, m_event_arg |-> event_arg, origin |-> origin,
     cause |-> cause, listeners |-> RegisteredFor(event_type), snapshot |-> <<>>]

\* The number of events published from outside a listener.
Produced == Len(SelectSeq(events, LAMBDA r : r.origin # "callback"))

\* A holder of get_temporary_queue()'s handle on a thread other than the
\* dispatcher calls push_event_in_tmp_queue.  The handle is its own Arc: the
\* call takes the two Deferred Queue locks and never the bus-wide mutex.
push_event_in_tmp_queue(event_type, event_arg) ==
    /\ ~dropped
    /\ Free({"m_tmp_event_queue", "m_tmp_event_queue.m_event_list"})
    /\ Produced < limit.events
    /\ event_arg \in limit.payloads
    /\ m_tmp_event_queue' =
           TmpQueuePush(m_tmp_event_queue,
                        QuEvent(Len(events) + 1, event_type, event_arg))
    /\ events' = Append(events, NewEvent("handle", <<>>, event_type, event_arg))
    /\ stage' = Append(stage, "handed")
    /\ UNCHANGED <<limit, conversion, threads, reader, not_empty, m_event_list, m_register_event_listeners, m_need_update,
                   m_stop_update, held, callback_lock, dropped, pc,
                   batch_calls, current_call, closures, log, owed>>

PendingPush_Front(queue, event) == <<event>> \o queue

\* ------------------------------------------------------------- push_event
PendingPush(queue, event) == Append(queue, event)

\* event_manager.lock().unwrap().push_event(event) from a producer thread.
push_event(event_type, event_arg) ==
    /\ ~dropped
    /\ ~Poisoned
    /\ Free({"this", "m_event_list", "m_need_update"})
    /\ Produced < limit.events
    /\ event_arg \in limit.payloads
    /\ m_event_list' =
           PendingPush(m_event_list, QuEvent(Len(events) + 1, event_type, event_arg))
    /\ m_need_update' = TRUE
    /\ pc' \in notify_one(pc)
    /\ events' = Append(events, NewEvent("push", <<>>, event_type, event_arg))
    /\ stage' = Append(stage, "pushed")
    /\ UNCHANGED <<limit, conversion, threads, reader, not_empty, m_register_event_listeners, m_stop_update, m_tmp_event_queue,
                   held, callback_lock, dropped, batch_calls, current_call,
                   closures, log, owed>>

\* ------------------------------------------------------ register_listener
RegistryAdd_NewBucket(reg, event_type, cb) ==
    Append(reg, [m_event_type |-> event_type, callbacks |-> <<cb>>])

\* Lines 242-257: push the callback on the first bucket of the kind, or on a
\* new bucket at the end.
RegistryAdd(reg, event_type, cb) ==
    LET idx == {i \in 1..Len(reg) : reg[i].m_event_type = event_type}
    IN  IF idx # {}
        THEN [reg EXCEPT ![Min(idx)].callbacks = Append(@, cb)]
        ELSE Append(reg, [m_event_type |-> event_type, callbacks |-> <<cb>>])

RegisterNotify_Missing(p) == {p}

\* Lines 259-263: *started = true is the caller's; this is cvar.notify_one().
RegisterNotify(p) == notify_one(p)

\* Every launched dispatcher is parked in cvar.wait.
Parked ==
    /\ \E d \in Dispatchers : pc[d] = "waiting"
    /\ \A d \in Dispatchers : pc[d] \in {"waiting", "unlaunched"}

\* event_manager.lock().unwrap().register_listener(event_type, callback)
register_listener(event_type, callback) ==
    /\ ~dropped
    /\ ~Poisoned
    /\ Free({"this", "m_register_event_listeners", "m_need_update"})
    /\ Len(closures) < limit.listeners
    /\ callback \in limit.closures
    /\ m_register_event_listeners' =
           RegistryAdd(m_register_event_listeners, event_type, Len(closures) + 1)
    /\ m_need_update' = TRUE
    /\ pc' \in RegisterNotify(pc)
    /\ closures' = Append(closures, [m_event_type |-> event_type, defers |-> callback])
    /\ owed' = IF Parked
               THEN owed \cup {<<Len(closures) + 1, m_event_list[n].id>> :
                                 n \in {i \in 1..Len(m_event_list) :
                                          m_event_list[i].m_event_type = event_type}}
               ELSE owed
    /\ UNCHANGED <<limit, conversion, threads, reader, not_empty, m_event_list, m_stop_update, m_tmp_event_queue, held,
                   callback_lock, dropped, batch_calls, current_call, events,
                   stage, log>>

\* ------------------------------------------------------------------ launch
\* Lines 316-318: clear the stop flag, clone m_need_update, spawn the closure.
launch ==
    /\ ~dropped
    /\ ~Poisoned
    /\ Free({"this"})
    /\ \E d \in 1..limit.dispatchers :
        /\ pc[d] = "unlaunched"
        /\ \A o \in Dispatchers : o < d => pc[o] # "unlaunched"
        /\ pc' = [pc EXCEPT ![d] = "loop"]
    /\ m_stop_update' = FALSE
    /\ UNCHANGED <<limit, conversion, threads, reader, not_empty, m_event_list, m_register_event_listeners, m_need_update,
                   m_tmp_event_queue, held, callback_lock, dropped,
                   batch_calls, current_call, history_vars>>

\* -------------------------------------------------------------------- stop
\* pub fn stop(mut self): the receiver is the EventManager BY VALUE.  A caller
\* can pass it only when it owns the manager alone (Arc::try_unwrap), that is
\* when no dispatcher closure holds a clone of the Arc; the flag is written
\* on the moved value, which is dropped when stop returns.
StopCallable == \A d \in Dispatchers : pc[d] \in {"unlaunched", "stopped"}

stop ==
    /\ ~dropped
    /\ StopCallable
    /\ m_stop_update' = TRUE
    /\ dropped' = TRUE
    /\ UNCHANGED <<limit, conversion, threads, reader, not_empty, m_event_list, m_register_event_listeners, m_need_update,
                   m_tmp_event_queue, held, callback_lock, pc, batch_calls,
                   current_call, history_vars>>

\* -------------------------------------------------- the dispatcher closure
\* Line 319: while !this.lock().unwrap().m_stop_update (the unwrap panics on
\* a poisoned bus, here as at lines 331 and 333)
LoopTest(d) ==
    /\ pc[d] = "loop"
    /\ Free({"this"})
    /\ pc' = [pc EXCEPT ![d] = IF Poisoned THEN "panicked"
                               ELSE IF m_stop_update THEN "stopped" ELSE "read_flag"]
    /\ UNCHANGED <<limit, conversion, threads, reader, not_empty, bus_vars, held, callback_lock, dropped, batch_calls,
                   current_call, history_vars>>

\* Lines 324-325 and 328: need_update_bool = *lock.lock().unwrap(), then the
\* test of the inner while.  The guard of the flag is a temporary: it is
\* released before wait() locks the flag again.
ReadFlag(d) ==
    /\ pc[d] \in {"read_flag", "woken"}
    /\ Free({"m_need_update"})
    /\ pc' = [pc EXCEPT ![d] = IF m_need_update THEN "update" ELSE "before_wait"]
    /\ UNCHANGED <<limit, conversion, threads, reader, not_empty, bus_vars, held, callback_lock, dropped, batch_calls,
                   current_call, history_vars>>

\* Line 327: cvar.wait(lock.lock().unwrap()) releases the flag and parks.
Wait(d) ==
    /\ pc[d] = "before_wait"
    /\ Free({"m_need_update"})
    /\ pc' = [pc EXCEPT ![d] = "waiting"]
    /\ UNCHANGED <<limit, conversion, threads, reader, not_empty, bus_vars, held, callback_lock, dropped, batch_calls,
                   current_call, history_vars>>

\* Condvar::wait may return without a notification (spurious wakeup).
SpuriousWakeup(d) ==
    /\ pc[d] = "waiting"
    /\ pc' = [pc EXCEPT ![d] = "woken"]
    /\ UNCHANGED <<limit, conversion, threads, reader, not_empty, bus_vars, held, callback_lock, dropped, batch_calls,
                   current_call, history_vars>>

\* ------------------------------------------------------------------ update
KindMatches_Always(event, bucket) == TRUE

\* Line 287: if event.m_event_type == tuple_event_listeners.0
KindMatches(event, bucket) == event.m_event_type = bucket.m_event_type

BucketCalls_Reversed(event, bucket) ==
    [j \in 1..Len(bucket.callbacks) |->
        [ev |-> event, cb |-> bucket.callbacks[Len(bucket.callbacks) + 1 - j]]]

BucketCalls_SkipLast(event, bucket) ==
    [j \in 1..(Len(bucket.callbacks) - 1) |-> [ev |-> event, cb |-> bucket.callbacks[j]]]

\* Lines 289-295: the callbacks of one bucket, in the bucket's order.
BucketCalls(event, bucket) ==
    [j \in 1..Len(bucket.callbacks) |-> [ev |-> event, cb |-> bucket.callbacks[j]]]

\* Lines 285-297: every bucket of the registry copy, in order.
RECURSIVE EventCalls(_, _, _)
EventCalls(event, reg, i) ==
    IF i > Len(reg) THEN <<>>
    ELSE (IF KindMatches(event, reg[i]) THEN BucketCalls(event, reg[i]) ELSE <<>>)
         \o EventCalls(event, reg, i + 1)

\* Lines 283-298: every event of the queue copy, in order.
RECURSIVE AllCalls(_, _, _)
AllCalls(event_list, reg, n) ==
    IF n > Len(event_list) THEN <<>>
    ELSE EventCalls(event_list[n], reg, 1) \o AllCalls(event_list, reg, n + 1)

HeldDuringUpdate_Released == {}

\* Line 331: this.lock().unwrap().update(): the guard of the bus-wide mutex
\* lives to the end of the statement, that is for the whole of update().  The
\* guards of lines 281 and 282 are temporaries, gone before the first callback.
HeldDuringUpdate == {"this"}

\* Lines 331 and 281-282: lock the bus, clone the Pending Queue and the registry.
UpdateBegin(d) ==
    /\ pc[d] = "update"
    /\ Free({"this", "m_event_list", "m_register_event_listeners"})
    /\ IF Poisoned
       THEN /\ pc' = [pc EXCEPT ![d] = "panicked"]
            /\ UNCHANGED <<held, batch_calls, stage, events>>
       ELSE /\ held' = [held EXCEPT ![d] = HeldDuringUpdate]
            /\ batch_calls' =
                   [batch_calls EXCEPT
                       ![d] = AllCalls(m_event_list, m_register_event_listeners, 1)]
            /\ stage' = [i \in 1..Len(stage) |->
                             IF \E n \in 1..Len(m_event_list) : m_event_list[n].id = i
                             THEN "batch" ELSE stage[i]]
            /\ events' = [i \in 1..Len(events) |->
                              IF \E n \in 1..Len(m_event_list) : m_event_list[n].id = i
                              THEN [events[i] EXCEPT !.snapshot = <<Len(closures)>>]
                              ELSE events[i]]
            /\ pc' = [pc EXCEPT ![d] = "invoking"]
    /\ UNCHANGED <<limit, conversion, threads, reader, not_empty, bus_vars, callback_lock, dropped, current_call, closures,
                   log, owed>>

\* Line 294: callback.lock().unwrap()(event): the call begins.
CallbackBegin(d) ==
    /\ pc[d] = "invoking"
    /\ batch_calls[d] # <<>>
    /\ LET call == Head(batch_calls[d]) IN
        /\ call.cb \notin callback_lock
        /\ callback_lock' = callback_lock \cup {call.cb}
        /\ current_call' = [current_call EXCEPT ![d] = <<call>>]
        /\ log' = Append(log, [cb |-> call.cb, ev |-> call.ev.id])
    /\ batch_calls' = [batch_calls EXCEPT ![d] = Tail(@)]
    /\ pc' = [pc EXCEPT ![d] = "in_callback"]
    /\ UNCHANGED <<limit, conversion, threads, reader, not_empty, bus_vars, held, dropped, closures, events, stage, owed>>

RequestAccepted_AnyField(argument) == Len(argument) >= 1

\* audio_reader/mod.rs line 73: if argument.len() != 1 { return; }
RequestAccepted(argument) == Len(argument) = 1

\* flac_reader.rs lines 474-478: read_information panics when the file of
\* the request cannot be opened.
ReadInformation(files) == files

\* The callback panics: the stack unwinds through update() and the closure
\* of the dispatcher thread, which ends; the guards dropped on the way (the
\* callback's and, by line 331, the bus-wide one) poison their mutexes.
Panic(d, cb) ==
    /\ pc' = [pc EXCEPT ![d] = "panicked"]
    /\ held' = [held EXCEPT ![d] = {}]
    /\ callback_lock' = callback_lock \ {cb}
    /\ UNCHANGED <<m_tmp_event_queue, events, stage, current_call>>

\* The closure body runs to its end and the guard of the callback's mutex is
\* dropped.  The closure of GUIManager.rs reads the key map and publishes
\* nothing; the closure of audio_reader/mod.rs, when the request has one
\* field, reads the file and publishes the AudioInformation through
\* push_event_in_tmp_queue, or panics in read_information.
\* A closure that calls event_manager.lock() locks the bus-wide mutex its own
\* thread holds since line 331: std::sync::Mutex leaves the outcome
\* unspecified, save that the call does not return: the thread blocks for
\* ever, or it panics.
CallbackEnd(d) ==
    /\ pc[d] = "in_callback"
    /\ LET call == current_call[d][1]
           kind == closures[call.cb].defers
       IN  IF kind = DirectPublish /\ "this" \in held[d]
           THEN \/ /\ pc' = [pc EXCEPT ![d] = "deadlocked"]
                   /\ UNCHANGED <<held, callback_lock, m_tmp_event_queue, events, stage,
                                  current_call>>
                \/ Panic(d, call.cb)
           ELSE IF kind \in QuEventType /\ RequestAccepted(call.ev.m_event_arg)
           THEN \E outcome \in ReadInformation(limit.files) :
                    IF outcome = CouldNotOpen
                    THEN Panic(d, call.cb)
                    ELSE /\ Free({"m_tmp_event_queue", "m_tmp_event_queue.m_event_list"})
                         /\ m_tmp_event_queue' =
                                TmpQueuePush(m_tmp_event_queue,
                                             QuEvent(Len(events) + 1, kind, AudioInformation))
                         /\ events' = Append(events,
                                             NewEvent("callback", <<call.ev.id>>, kind,
                                                      AudioInformation))
                         /\ stage' = Append(stage, "staged")
                         /\ callback_lock' = callback_lock \ {call.cb}
                         /\ current_call' = [current_call EXCEPT ![d] = <<>>]
                         /\ pc' = [pc EXCEPT ![d] = "invoking"]
                         /\ UNCHANGED held
           ELSE /\ callback_lock' = callback_lock \ {call.cb}
                /\ current_call' = [current_call EXCEPT ![d] = <<>>]
                /\ pc' = [pc EXCEPT ![d] = "invoking"]
                /\ UNCHANGED <<held, m_tmp_event_queue, events, stage>>
    /\ UNCHANGED <<limit, conversion, threads, reader, not_empty, m_event_list, m_register_event_listeners, m_need_update,
                   m_stop_update, dropped, batch_calls, closures, log, owed>>

Merge_BeforeClear(pending, tmp) == SubSeq(pending \o tmp, 1, 0)
Merge_NoClear(pending, tmp) == pending \o tmp

\* Lines 299-306: clear the Pending Queue, then push a clone of every event
\* of the Deferred Queue onto it, in order.
Merge(pending, tmp) ==
    LET cleared == SubSeq(pending, 1, 0)
    IN  cleared \o tmp

MergeHeld_PendingOnly == {"m_event_list"}

\* Lines 301-302: the guards event_list and tmp_queue live to the end of
\* update().  The guards of the inner Deferred Queue mutex are temporaries:
\* the one of line 303 is dropped at the end of the loop, the one of line 307
\* at the end of its statement.
MergeHeld == {"m_event_list", "m_tmp_event_queue"}

\* Lines 299-306, once the last callback has returned: the Pending Queue is
\* cleared and receives the clones; the Deferred Queue still holds its events.
MergeCopy(d) ==
    /\ pc[d] = "invoking"
    /\ batch_calls[d] = <<>>
    /\ Free({"m_event_list", "m_tmp_event_queue", "m_tmp_event_queue.m_event_list"})
    /\ m_event_list' = Merge(m_event_list, m_tmp_event_queue)
    /\ held' = [held EXCEPT ![d] = @ \cup MergeHeld]
    /\ stage' = [i \in 1..Len(stage) |->
                     CASE stage[i] = "batch" -> "done"
                       [] stage[i] = "staged" -> "merged"
                       [] OTHER -> stage[i]]
    /\ pc' = [pc EXCEPT ![d] = "merging"]
    /\ UNCHANGED <<limit, conversion, threads, reader, not_empty, m_register_event_listeners, m_need_update, m_stop_update,
                   m_tmp_event_queue, callback_lock, dropped, batch_calls, current_call,
                   closures, events, log, owed>>

\* The end of update(): line 307 clears the Deferred Queue, then the guards
\* of lines 301-302 and the guard of line 331 are dropped.
UpdateEnd(d) ==
    /\ pc[d] = "merging"
    /\ Free({"m_tmp_event_queue.m_event_list"})
    /\ m_tmp_event_queue' = <<>>
    /\ held' = [held EXCEPT ![d] = {}]
    /\ pc' = [pc EXCEPT ![d] = "recompute"]
    /\ UNCHANGED <<limit, conversion, threads, reader, not_empty, m_event_list, m_register_event_listeners, m_need_update,
                   m_stop_update, callback_lock, dropped, batch_calls, current_call,
                   history_vars>>

RecomputeHeld_Released == {}

\* Line 333: the guards of this.lock() and of m_event_list.lock() are
\* temporaries of the statement: they live until the assignment is done.
RecomputeHeld == {"this", "m_event_list"}

\* Line 333, the right-hand side, which is evaluated before the place it is
\* assigned to: !this.lock().unwrap().m_event_list.lock().unwrap().is_empty()
IsEmpty(d) ==
    /\ pc[d] = "recompute"
    /\ Free({"this", "m_event_list"})
    /\ IF Poisoned
       THEN /\ pc' = [pc EXCEPT ![d] = "panicked"]
            /\ UNCHANGED <<held, not_empty>>
       ELSE /\ not_empty' = [not_empty EXCEPT ![d] = <<m_event_list # <<>>>>]
            /\ held' = [held EXCEPT ![d] = RecomputeHeld]
            /\ pc' = [pc EXCEPT ![d] = "assign"]
    /\ UNCHANGED <<limit, conversion, threads, reader, bus_vars, callback_lock, dropped,
                   batch_calls, current_call, history_vars>>

\* Lines 333-334: *lock.lock().unwrap() = the value; the guards of the
\* statement are dropped; cvar.notify_one().
Recompute(d) ==
    /\ pc[d] = "assign"
    /\ Free({"m_need_update"})
    /\ m_need_update' = not_empty[d][1]
    /\ not_empty' = [not_empty EXCEPT ![d] = <<>>]
    /\ held' = [held EXCEPT ![d] = {}]
    /\ pc' \in notify_one([pc EXCEPT ![d] = "loop"])
    /\ UNCHANGED <<limit, conversion, threads, reader, m_event_list, m_register_event_listeners, m_stop_update,
                   m_tmp_event_queue, callback_lock, dropped,
                   batch_calls, current_call, history_vars>>

\* One step of a dispatcher thread that the scheduler must eventually grant.
DispatcherStep(d) ==
    \/ LoopTest(d)
    \/ ReadFlag(d)
    \/ Wait(d)
    \/ UpdateBegin(d)
    \/ CallbackBegin(d)
    \/ CallbackEnd(d)
    \/ MergeCopy(d)
    \/ UpdateEnd(d)
    \/ IsEmpty(d)
    \/ Recompute(d)

Next ==
    \/ \E k \in QuEventType, a \in Payloads : push_event(k, a)
    \/ \E k \in QuEventType, a \in Payloads : push_event_in_tmp_queue(k, a)
    \/ \E k \in QuEventType, c \in Closures \cup {DirectPublish} :
           register_listener(k, c)
    \/ launch
    \/ stop
    \/ \E d \in Dispatchers : DispatcherStep(d)
    \/ \E d \in Dispatchers : SpuriousWakeup(d)

Spec == Init /\ [][Next]_vars

\* The threads are scheduled fairly: a dispatcher that can take a step
\* eventually takes it.  Nothing obliges a producer to publish, a registrar
\* to register, or the condition variable to wake spuriously.
FairSpec ==
    InitLive /\ [][Next]_vars /\ \A d \in Dispatchers : WF_vars(DispatcherStep(d))

\* The same, with producers that also publish malformed requests.
FairPayloadSpec ==
    InitPayload /\ [][Next]_vars /\ \A d \in Dispatchers : WF_vars(DispatcherStep(d))

\* ------------------------------------------------ read_u128_from_file
\* The file of the test of utils/mod.rs, "AZERTYUIOPQSDFGF", and the files
\* that differ from it in up to MaxReplaced bytes, each replaced by one of
\* the sample bytes.
TestFile == <<65, 90, 69, 82, 84, 89, 85, 73, 79, 80, 81, 83, 68, 70, 71, 70>>
SampleBytes == {0, 1, 128, 255}
RECURSIVE Files(_)
Files(n) ==
    IF n = 0 THEN {TestFile}
    ELSE {[f EXCEPT ![p] = b] : f \in Files(n - 1), p \in 1..U128Bytes, b \in SampleBytes}

ReaderInit ==
    /\ InitWith(LiveScenarios)
    /\ conversion = NotConverting
    /\ threads = NoThreads
    /\ reader \in {[pc |-> "read_exact", file |-> f, au128_buffer |-> U128Zero,
                     i |-> 0, u128_value |-> U128Zero] : f \in Files(MaxReplaced)}

ReaderNext == ReadExact \/ LittleEndianStep \/ ReaderReturn

ReaderSpec == ReaderInit /\ [][ReaderNext]_vars

\* --------------------------------------------- convert_to_key_map, alone
\* The strings and the numbers of the AudioInformation values converted.
SampleStrings == {"", "Quadrium"}
SampleRates ==
    {AsU32(0, 0), AsU32(0, 9), AsU32(0, 10), AsU32(0, 44100), AsU32(0, U16 - 1),
     AsU32(1, 0), AsU32(2, 60928), AsU32(U16 - 1, U16 - 1)}
SampleU8 == {0, 2, 9, 10, 16, 24, 100, 255}

AudioInformations ==
    [m_str_music_name : SampleStrings, m_str_music_type : {""},
     m_str_artist_name : SampleStrings, m_str_tracknumber : {"", "7"},
     m_str_album : {""}, m_str_date : {""}, m_str_duration : {""},
     m_rate : SampleRates, m_channel_count : SampleU8, m_bits_per_sample : SampleU8]

KeyMapInit ==
    /\ InitWith(LiveScenarios)
    /\ reader = NotReading
    /\ threads = NoThreads
    /\ conversion \in {[pc |-> "called", self |-> a, key_map |-> <<>>] : a \in AudioInformations}

KeyMapNext == ConvertToKeyMap

KeyMapSpec == KeyMapInit /\ [][KeyMapNext]_vars

\* ------------------------------------------------- the bus, lock by lock
\* The threads of a run with every lock() call as a step of its own: a
\* thread that calls lock() on a mutex another thread owns waits for it.
\* The program launches the dispatchers (launch called LockLaunches times);
\* a producer calls push_event, a registrar register_listener and a holder
\* of the temporary-queue handle push_event_in_tmp_queue.
LockLaunches == 2
LockPushes == 1
LockRegistrations == 1
LockHandlePushes == 1

Producer == <<"producer">>
Registrar == <<"registrar">>
Handle == <<"handle">>
Launcher == <<"launcher">>
Dispatcher(n) == <<"dispatcher", n>>
LockDispatchers == {Dispatcher(n) : n \in 1..LockLaunches}
Threads == LockDispatchers \cup {Producer, Registrar, Handle, Launcher}
NoThread == <<>>
NoLock == <<>>

\* The locks of the bus, and the Mutex<closure> of listener n (line 241).
Bus(names) == {<<name>> : name \in names}
CallbackLock(n) == <<"callback", n>>
Locks == Bus(BusLocks) \cup {CallbackLock(n) : n \in 1..(LockRegistrations + 1)}

\* The listeners of the application: the closure of audio_reader/mod.rs is
\* registered for the requests and defers a response; the closure of
\* GUIManager.rs is registered for the responses and publishes nothing.
Request == EAskRetrieveMusicInformation
Response == EMusicInformationRetrieved

AssignOrder_PlaceFirst == <<"m_need_update", "this", "m_event_list">>

\* Line 333: the locks of the statement in the order they are taken.  The
\* assigned value is evaluated before the place: this.lock(), then
\* m_event_list.lock(), then lock.lock().
AssignOrder == <<"this", "m_event_list", "m_need_update">>

\* The lock a thread has to take to leave the place it is at.
Needs(t) ==
    LET at == threads.at[t] IN
    CASE at \in {"loop", "update", "push_event", "register_listener", "launch",
                 "need_update"} -> <<"this">>
      [] at \in {"read_flag", "before_wait", "woken", "started"} -> <<"m_need_update">>
      [] at \in {"clone_events", "clear", "merge", "push"} -> <<"m_event_list">>
      [] at \in {"clone_registry", "registry"} -> <<"m_register_event_listeners">>
      [] at = "invoke" /\ threads.calls[t] # <<>> -> CallbackLock(Head(threads.calls[t]).cb)
      [] at = "callback" /\ Head(threads.calls[t]).kind = Request -> <<"m_tmp_event_queue">>
      [] at \in {"merge_tmp", "push_event_in_tmp_queue"} -> <<"m_tmp_event_queue">>
      [] at \in {"callback_push", "copy", "clear_tmp", "tmp_push"} ->
             <<"m_tmp_event_queue.m_event_list">>
      [] at = "assign1" -> <<AssignOrder[1]>>
      [] at = "assign2" -> <<AssignOrder[2]>>
      [] at = "assign3" -> <<AssignOrder[3]>>
      [] OTHER -> NoLock

\* Thread t can take its step: the lock it needs is free.
CanStep(t) == IF Needs(t) = NoLock THEN TRUE ELSE threads.owner[Needs(t)] = NoThread

\* owner, with the locks of take taken by t and then those of drop released.
Owners(t, take, drop) ==
    [l \in Locks |-> IF l \in drop THEN NoThread
                     ELSE IF l \in take THEN t ELSE threads.owner[l]]

\* cvar.notify_one(): one of the parked dispatchers, if any, is woken.
LockNotify(at) ==
    LET parked == {d \in LockDispatchers : at[d] = "parked"}
    IN  IF parked = {} THEN {at}
        ELSE {[at EXCEPT ![d] = "woken"] : d \in parked}

\* Lines 283-298 on the clones: the calls of a batch, in order.
RECURSIVE LockCalls(_, _)
LockCalls(event_list, listeners) ==
    IF event_list = <<>> THEN <<>>
    ELSE LET mine == SelectSeq([n \in 1..Len(listeners) |->
                                   [cb |-> n, kind |-> listeners[n]]],
                               LAMBDA c : c.kind = Head(event_list))
         IN  mine \o LockCalls(Tail(event_list), listeners)

\* Lines 319-328: the top of the loop, the read of the flag and the wait.
DispatcherLoop(d) ==
    /\ threads.at[d] \in {"loop", "read_flag", "before_wait", "woken"}
    /\ CanStep(d)
    /\ LET at == threads.at[d]
           next == CASE at = "loop" -> "read_flag"
                     [] at = "read_flag" -> IF threads.flag THEN "update" ELSE "before_wait"
                     [] at = "before_wait" -> "parked"
                     [] at = "woken" -> "read_flag"
       IN  threads' = [threads EXCEPT !.at[d] = next]

\* Condvar::wait may return without a notification.
LockSpuriousWakeup(d) ==
    /\ threads.at[d] = "parked"
    /\ threads' = [threads EXCEPT !.at[d] = "woken"]

\* Lines 331 and 281-282: lock the bus, clone the queue, clone the registry.
DispatcherSnapshot(d) ==
    /\ threads.at[d] \in {"update", "clone_events", "clone_registry"}
    /\ CanStep(d)
    /\ LET at == threads.at[d] IN
       CASE at = "update" ->
                threads' = [threads EXCEPT !.at[d] = "clone_events",
                                           !.owner = Owners(d, Bus({"this"}), {})]
         [] at = "clone_events" ->
                threads' = [threads EXCEPT !.at[d] = "clone_registry",
                                           !.snapshot[d] = threads.pending]
         [] at = "clone_registry" ->
                threads' = [threads EXCEPT
                               !.at[d] = "invoke",
                               !.calls[d] = LockCalls(threads.snapshot[d], threads.listeners)]

\* Line 294 and the closure: lock the callback and call it; the closure of
\* audio_reader/mod.rs takes the two locks of the temporary queue (line 208).
DispatcherCallback(d) ==
    /\ threads.at[d] \in {"invoke", "callback", "callback_push", "callback_return"}
    /\ CanStep(d)
    /\ LET at == threads.at[d]
           calls == threads.calls[d]
       IN
       CASE at = "invoke" /\ calls = <<>> ->
                threads' = [threads EXCEPT !.at[d] = "clear"]
         [] at = "invoke" /\ calls # <<>> ->
                threads' = [threads EXCEPT
                               !.at[d] = "callback",
                               !.owner = Owners(d, {CallbackLock(Head(calls).cb)}, {})]
         [] at = "callback" /\ Head(calls).kind = Request ->
                threads' = [threads EXCEPT
                               !.at[d] = "callback_push",
                               !.owner = Owners(d, Bus({"m_tmp_event_queue"}), {})]
         [] at = "callback" /\ Head(calls).kind # Request ->
                threads' = [threads EXCEPT !.at[d] = "callback_return"]
         [] at = "callback_push" ->
                threads' = [threads EXCEPT
                               !.at[d] = "callback_return",
                               !.tmp = Append(@, Response),
                               !.owner = Owners(d, {}, Bus({"m_tmp_event_queue"}))]
         [] at = "callback_return" ->
                threads' = [threads EXCEPT
                               !.at[d] = "invoke",
                               !.calls[d] = Tail(calls),
                               !.owner = Owners(d, {}, {CallbackLock(Head(calls).cb)})]

\* Lines 299-308: the clear, the merge and the return of update().
DispatcherMerge(d) ==
    /\ threads.at[d] \in {"clear", "merge", "merge_tmp", "copy", "clear_tmp"}
    /\ CanStep(d)
    /\ LET at == threads.at[d] IN
       CASE at = "clear" ->
                threads' = [threads EXCEPT !.at[d] = "merge", !.pending = <<>>]
         [] at = "merge" ->
                threads' = [threads EXCEPT !.at[d] = "merge_tmp",
                                           !.owner = Owners(d, Bus({"m_event_list"}), {})]
         [] at = "merge_tmp" ->
                threads' = [threads EXCEPT !.at[d] = "copy",
                                           !.owner = Owners(d, Bus({"m_tmp_event_queue"}), {})]
         [] at = "copy" ->
                threads' = [threads EXCEPT !.at[d] = "clear_tmp",
                                           !.pending = @ \o threads.tmp]
         [] at = "clear_tmp" ->
                threads' = [threads EXCEPT
                               !.at[d] = "assign1",
                               !.tmp = <<>>,
                               !.owner = Owners(d, {}, Bus({"m_tmp_event_queue", "m_event_list",
                                                        "this"}))]

\* Lines 333-334: the three locks of the assignment, then notify_one.
DispatcherAssign(d) ==
    /\ threads.at[d] \in {"assign1", "assign2", "assign3", "notify"}
    /\ CanStep(d)
    /\ LET at == threads.at[d]
           not_empty_now == IF Needs(d) = <<"m_event_list">> THEN threads.pending # <<>>
                            ELSE threads.not_empty[d]
       IN
       CASE at = "assign1" ->
                threads' = [threads EXCEPT !.at[d] = "assign2",
                                           !.not_empty[d] = not_empty_now,
                                           !.owner = Owners(d, {Needs(d)}, {})]
         [] at = "assign2" ->
                threads' = [threads EXCEPT !.at[d] = "assign3",
                                           !.not_empty[d] = not_empty_now,
                                           !.owner = Owners(d, {Needs(d)}, {})]
         [] at = "assign3" ->
                threads' = [threads EXCEPT
                               !.at[d] = "notify",
                               !.not_empty[d] = not_empty_now,
                               !.flag = not_empty_now,
                               !.owner = Owners(d, {}, Bus({AssignOrder[1], AssignOrder[2],
                                                            AssignOrder[3]}))]
         [] at = "notify" ->
                \E woken \in LockNotify([threads.at EXCEPT ![d] = "loop"]) :
                    threads' = [threads EXCEPT !.at = woken]

\* event_manager.lock().unwrap().push_event(event): lines 220-228 under the
\* guard of the caller.
ProducerStep ==
    /\ CanStep(Producer)
    /\ LET at == threads.at[Producer] IN
       CASE at = "push_event" ->
                threads' = [threads EXCEPT !.at[Producer] = "push",
                                           !.owner = Owners(Producer, Bus({"this"}), {})]
         [] at = "push" ->
                threads' = [threads EXCEPT !.at[Producer] = "started",
                                           !.pending = Append(@, Request)]
         [] at = "started" ->
                \E woken \in LockNotify([threads.at EXCEPT ![Producer] =
                                            IF threads.left[Producer] > 1
                                            THEN "push_event" ELSE "done"]) :
                    threads' = [threads EXCEPT
                                   !.at = woken,
                                   !.flag = TRUE,
                                   !.left[Producer] = @ - 1,
                                   !.owner = Owners(Producer, {}, Bus({"this"}))]
         [] OTHER -> FALSE

\* event_manager.lock().unwrap().register_listener(..): lines 236-264 under
\* the guard of the caller; the guard of the registry lives to the end.
RegistrarStep ==
    /\ CanStep(Registrar)
    /\ LET at == threads.at[Registrar] IN
       CASE at = "register_listener" ->
                threads' = [threads EXCEPT !.at[Registrar] = "registry",
                                           !.owner = Owners(Registrar, Bus({"this"}), {})]
         [] at = "registry" ->
                \E kind \in {Request, Response} :
                    threads' = [threads EXCEPT
                                   !.at[Registrar] = "started",
                                   !.listeners = Append(@, kind),
                                   !.owner = Owners(Registrar,
                                                    Bus({"m_register_event_listeners"}), {})]
         [] at = "started" ->
                \E woken \in LockNotify([threads.at EXCEPT ![Registrar] =
                                            IF threads.left[Registrar] > 1
                                            THEN "register_listener" ELSE "done"]) :
                    threads' = [threads EXCEPT
                                   !.at = woken,
                                   !.flag = TRUE,
                                   !.left[Registrar] = @ - 1,
                                   !.owner = Owners(Registrar, {},
                                                    Bus({"m_register_event_listeners", "this"}))]
         [] OTHER -> FALSE

\* push_event_in_tmp_queue from another thread: line 208.
HandleStep ==
    /\ CanStep(Handle)
    /\ LET at == threads.at[Handle] IN
       CASE at = "push_event_in_tmp_queue" ->
                threads' = [threads EXCEPT !.at[Handle] = "tmp_push",
                                           !.owner = Owners(Handle, Bus({"m_tmp_event_queue"}), {})]
         [] at = "tmp_push" ->
                threads' = [threads EXCEPT
                               !.at[Handle] = IF threads.left[Handle] > 1
                                              THEN "push_event_in_tmp_queue" ELSE "done",
                               !.tmp = Append(@, Request),
                               !.left[Handle] = @ - 1,
                               !.owner = Owners(Handle, {}, Bus({"m_tmp_event_queue"}))]
         [] OTHER -> FALSE

\* EventManager::launch: the two this.lock() of lines 316 and 317, then the
\* spawn of line 318.
LauncherStep ==
    /\ CanStep(Launcher)
    /\ LET at == threads.at[Launcher] IN
       CASE at = "launch" -> threads' = [threads EXCEPT !.at[Launcher] = "need_update"]
         [] at = "need_update" -> threads' = [threads EXCEPT !.at[Launcher] = "spawn"]
         [] at = "spawn" ->
                LET d == Dispatcher(LockLaunches + 1 - threads.left[Launcher]) IN
                threads' = [threads EXCEPT
                               !.at[d] = "loop",
                               !.at[Launcher] = IF threads.left[Launcher] > 1
                                                THEN "launch" ELSE "done",
                               !.left[Launcher] = @ - 1]
         [] OTHER -> FALSE

LockStep(t) ==
    /\ \/ /\ t \in LockDispatchers
          /\ \/ DispatcherLoop(t)
             \/ DispatcherSnapshot(t)
             \/ DispatcherCallback(t)
             \/ DispatcherMerge(t)
             \/ DispatcherAssign(t)
       \/ t = Producer /\ ProducerStep
       \/ t = Registrar /\ RegistrarStep
       \/ t = Handle /\ HandleStep
       \/ t = Launcher /\ LauncherStep
    /\ UNCHANGED <<limit, reader, conversion, not_empty, bus_vars, held, callback_lock,
                   dropped, pc, batch_calls, current_call, history_vars>>

LockWake ==
    /\ \E d \in LockDispatchers : LockSpuriousWakeup(d)
    /\ UNCHANGED <<limit, reader, conversion, not_empty, bus_vars, held, callback_lock,
                   dropped, pc, batch_calls, current_call, history_vars>>

\* The bus as create_event_manager leaves it, with the listener of
\* audio_reader/mod.rs registered, no thread holding a lock, no dispatcher
\* launched yet.
LockInit ==
    /\ InitWith(LiveScenarios)
    /\ reader = NotReading
    /\ conversion = NotConverting
    /\ threads =
           [at |-> [t \in Threads |->
                       CASE t = Producer -> "push_event"
                         [] t = Registrar -> "register_listener"
                         [] t = Handle -> "push_event_in_tmp_queue"
                         [] t = Launcher -> "launch"
                         [] OTHER -> "unlaunched"],
            owner |-> [l \in Locks |-> NoThread],
            flag |-> FALSE,
            pending |-> <<>>,
            tmp |-> <<>>,
            listeners |-> <<Request>>,
            snapshot |-> [d \in LockDispatchers |-> <<>>],
            calls |-> [d \in LockDispatchers |-> <<>>],
            not_empty |-> [d \in LockDispatchers |-> FALSE],
            left |-> [t \in {Producer, Registrar, Handle, Launcher} |->
                         CASE t = Producer -> LockPushes
                           [] t = Registrar -> LockRegistrations
                           [] t = Handle -> LockHandlePushes
                           [] t = Launcher -> LockLaunches]]

LockNext == (\E t \in Threads : LockStep(t)) \/ LockWake

\* Every thread that can take a step eventually takes one; nothing obliges
\* the condition variable to wake spuriously.
FairLockSpec ==
    LockInit /\ [][LockNext]_vars /\ \A t \in Threads : WF_vars(LockStep(t))

\* ================================================================ claims
EventIds == 1..Len(events)
ListenerIds == 1..Len(closures)

\* The callbacks called with event e so far, in the order of the calls.
CallsOf(e) ==
    LET mine == SelectSeq(log, LAMBDA r : r.ev = e)
    IN  [i \in 1..Len(mine) |-> mine[i].cb]

IsPrefix(s, t) == Len(s) <= Len(t) /\ SubSeq(t, 1, Len(s)) = s

IsIn(e, queue) == \E n \in 1..Len(queue) : queue[n].id = e

Launched == \E d \in Dispatchers : pc[d] # "unlaunched"

\* The events of a run under fair scheduling: those of the producers, and
\* one from each listener for each of them.
LiveEventIds == 1..(LiveEvents + LiveEvents * LiveListeners)

\* Event e was published by push_event, or staged by a callback.
Pushed(e) == IF e \in EventIds THEN events[e].origin = "push" ELSE FALSE
Staged(e) == IF e \in EventIds THEN events[e].origin = "callback" ELSE FALSE

\* The batch of event e has ended and gave e to every listener that was
\* registered for its kind when e was published.
Delivered(e) ==
    IF e \in EventIds
    THEN stage[e] = "done" /\ IsPrefix(events[e].listeners, CallsOf(e))
    ELSE FALSE

\* ---------------------------------------------------------------- C1
\* Before its batch an event published by push_event has been given to no
\* listener; once the batch whose snapshot held it has ended, the calls made
\* with it are the listeners registered for its kind, each once, in the
\* order of their registration, and they include every listener that was
\* registered when it was published.
C1_Delivered ==
    \A e \in EventIds :
        events[e].origin = "push" =>
            /\ stage[e] = "pushed" => CallsOf(e) = <<>>
            /\ stage[e] \in {"batch", "done"} =>
                   IsPrefix(CallsOf(e), RegisteredFor(events[e].m_event_type))
            /\ stage[e] = "done" => IsPrefix(events[e].listeners, CallsOf(e))

\* An event whose batch has ended stays out of every later batch, and no
\* callback is called with it again.
C1_NeverAgain ==
    \A e \in EventIds :
        stage[e] = "done" => stage'[e] = "done" /\ CallsOf(e)' = CallsOf(e)

\* C1: exactly-once delivery in registration order.  Every event E placed in
\* the Pending Queue by push_event while n listeners are registered for its
\* kind is given, by the batch whose snapshot holds it, to each of those n
\* listeners exactly once, in the order of registration, and no later batch
\* calls a listener with E again.
C1_ExactlyOnceInOrder == []C1_Delivered /\ [][C1_NeverAgain]_vars

\* An event published with two listeners registered for its kind has been
\* through its batch.
C1_Witness ==
    \E e \in EventIds :
        /\ events[e].origin = "push"
        /\ Len(events[e].listeners) = 2
        /\ stage[e] = "done"
        /\ Len(CallsOf(e)) = 2

\* ---------------------------------------------------------------- C2
\* C2: kind isolation.  Every callback call the dispatcher has made passed an
\* event whose m_event_type equals the kind the callback was registered for.
C2_KindIsolation ==
    \A i \in 1..Len(log) :
        closures[log[i].cb].m_event_type = events[log[i].ev].m_event_type

\* Listeners of both kinds are registered, events of both kinds have been
\* through a batch with them, and calls were made.
C2_Witness ==
    /\ \E a, b \in ListenerIds : closures[a].m_event_type # closures[b].m_event_type
    /\ \E e, f \in EventIds :
        /\ events[e].m_event_type # events[f].m_event_type
        /\ stage[e] = "done" /\ stage[f] = "done"
        /\ CallsOf(e) # <<>> /\ CallsOf(f) # <<>>

\* ---------------------------------------------------------------- C3
\* The events staged by a callback that are still to be delivered.
StagedUndelivered == {e \in EventIds : Staged(e) /\ ~Delivered(e)}

C3_Timing ==
    \A e \in EventIds :
        events[e].origin = "callback" =>
            /\ stage[e] = "staged" =>
                   /\ CallsOf(e) = <<>>
                   /\ ~IsIn(e, m_event_list)
                   /\ IsIn(e, m_tmp_event_queue)
                   /\ \A d \in Dispatchers : \A n \in 1..Len(batch_calls[d]) :
                          batch_calls[d][n].ev.id # e
            /\ stage[e] = "merged" => CallsOf(e) = <<>> /\ IsIn(e, m_event_list)
            /\ stage[e] \in {"batch", "done"} =>
                   IsPrefix(CallsOf(e), RegisteredFor(events[e].m_event_type))
            /\ stage[e] = "done" => IsPrefix(events[e].listeners, CallsOf(e))

C3_NextBatchDelivers ==
    (StagedUndelivered # {}) ~> (StagedUndelivered = {})

\* C3: deferred timing.  An event D staged by a callback during batch N is in
\* no call of batch N (not even to a listener of its kind that comes later
\* in the batch) and not in its Pending Queue; from the end of batch N to the
\* snapshot of batch N+1 it is in the Pending Queue, still undelivered; and
\* batch N+1 takes place and gives it to the listeners of its kind.
C3_DeferredTiming == []C3_Timing /\ C3_NextBatchDelivers

\* The first of two listeners of kind K, called with an event of kind K,
\* staged an event D of kind K; the second listener was then called with the
\* batch's event and not with D; the next batch gave D to both.
C3_Witness ==
    \E e, f \in EventIds :
        /\ events[e].origin = "callback"
        /\ events[f].origin = "push"
        /\ f < e
        /\ events[e].m_event_type = events[f].m_event_type
        /\ stage[e] = "done" /\ stage[f] = "done"
        /\ Len(CallsOf(f)) = 2
        /\ closures[CallsOf(f)[1]].defers # NoDefer
        /\ CallsOf(e) = CallsOf(f)

\* ---------------------------------------------------------------- C4
\* C4: no loss under concurrency.  With a dispatcher launched, every event
\* published by push_event eventually has been through a batch that gave it
\* to every listener registered for its kind when it was published, whatever
\* the interleaving of the producers with the dispatcher loop.
C4_NoLoss ==
    \A e \in LiveEventIds : (Pushed(e) /\ Launched) ~> Delivered(e)

\* ---------------------------------------------------------------- C5
\* The pairs <<listener, event>> of owed for which the call is still to come.
Unserved ==
    {o \in owed : \A i \in 1..Len(log) : log[i] # [cb |-> o[1], ev |-> o[2]]}

\* C5: idle wake on registration.  A listener registered for kind K while
\* the dispatcher is parked and the Pending Queue holds events of kind K is
\* eventually called with each of those events, with no further push_event.
C5_IdleWakeOnRegistration ==
    (Unserved # {}) ~> (Unserved = {})

\* A listener registered while the dispatcher was parked on a non-empty
\* Pending Queue has been called with the event that was pending.
C5_Witness ==
    \E o \in owed : \E i \in 1..Len(log) : log[i] = [cb |-> o[1], ev |-> o[2]]

\* ---------------------------------------------------------------- C6
\* The locks push_event and register_listener take.
ProducerLocks == {"this", "m_event_list", "m_register_event_listeners", "m_need_update"}

InCallback == {d \in Dispatchers : pc[d] = "in_callback"}

\* C6 as claimed: while the dispatcher executes a callback it holds none of
\* the locks push_event or register_listener must acquire, the bus-wide
\* mutex included.
C6_NoProducerLockInCallback ==
    \A d \in InCallback : held[d] \cap ProducerLocks = {}

C6_HeldInCallback ==
    \A d \in InCallback :
        /\ held[d] = {"this"}
        /\ current_call[d][1].cb \in callback_lock

C6_ProducersWait ==
    InCallback # {} =>
        /\ m_event_list' = m_event_list
        /\ m_register_event_listeners' = m_register_event_listeners
        /\ closures' = closures
        /\ m_need_update' = m_need_update

\* C6 as amended: while the dispatcher executes a callback it holds the
\* bus-wide mutex and that callback's mutex, and none of the Pending Queue
\* lock, the registry lock and the wake-flag lock; no push_event or
\* register_listener call completes before the callback returns.
C6_BusMutexHeldInCallback == []C6_HeldInCallback /\ [][C6_ProducersWait]_vars

\* A callback is running while a producer still has an event to publish and
\* a registrar a listener to register.
C6_Witness ==
    /\ InCallback # {}
    /\ Produced < limit.events
    /\ Len(closures) < limit.listeners

\* ---------------------------------------------------------------- C7
C7_OneAtATime == Cardinality(InCallback) <= 1

C7_OnlyTheDispatcherCalls ==
    log' # log =>
        /\ \E d \in Dispatchers : pc[d] = "invoking" /\ pc'[d] = "in_callback"
        /\ events' = events
        /\ closures' = closures

\* C7: callbacks run on a dispatcher thread and never overlap.  At most one
\* callback call of the bus is in progress at a time, and a callback is only
\* ever called by a dispatcher inside update(): no push_event,
\* register_listener or push_event_in_tmp_queue step calls one.
C7_CallbacksNeverOverlap == []C7_OneAtATime /\ [][C7_OnlyTheDispatcherCalls]_vars

\* One dispatcher is inside a callback while another is ready to start a batch.
C7_Witness ==
    \E d, o \in Dispatchers : pc[d] = "in_callback" /\ pc[o] = "update"

\* ---------------------------------------------------------------- C8
C8_Step ==
    LET n == Len(events') IN
    (n = Len(events) + 1 /\ events'[n].origin \in {"callback", "handle"}) =>
        /\ m_tmp_event_queue' =
               Append(m_tmp_event_queue,
                      QuEvent(n, events'[n].m_event_type, events'[n].m_event_arg))
        /\ m_event_list' = m_event_list
        /\ m_register_event_listeners' = m_register_event_listeners
        /\ m_stop_update' = m_stop_update
        /\ m_need_update' = m_need_update
        /\ \A d \in Dispatchers : pc[d] = "waiting" => pc'[d] = "waiting"

\* C8: push_event_in_tmp_queue appends its event at the tail of the Deferred
\* Queue and changes nothing else: the Pending Queue, the registry, the stop
\* flag and the wake flag keep their values and no parked dispatcher is woken.
C8_DeferredPublishFrame == [][C8_Step]_vars

\* Two events sit in the Deferred Queue while a dispatcher is parked with
\* the wake flag false.
C8_Witness ==
    /\ Len(m_tmp_event_queue) >= 2
    /\ ~m_need_update
    /\ \E d \in Dispatchers : pc[d] = "waiting"

\* ---------------------------------------------------------------- C9
\* C9 as claimed: stop() sets the stop flag of the bus, which lives on for
\* its dispatcher to read the flag at the top of the loop, and changes
\* nothing else (the wake flag, the parked threads).
C9_StopSetsTheDispatchersFlag ==
    [][(m_stop_update' /\ ~m_stop_update) =>
           /\ ~dropped'
           /\ m_need_update' = m_need_update
           /\ pc' = pc]_vars

\* ---------------------------------------------------------------- C10
\* C10 as claimed: cooperative shutdown terminates.  Once the stop flag is
\* set, a dispatcher loop eventually exits.
C10_ShutdownTerminates ==
    m_stop_update ~> (\E d \in Dispatchers : pc[d] = "stopped")

\* ---------------------------------------------------------------- C11
\* The listener of audio_reader/mod.rs and the listener of GUIManager.rs.
IsMetadataListener(l) ==
    closures[l] = [m_event_type |-> EAskRetrieveMusicInformation,
                   defers |-> EMusicInformationRetrieved]
IsPresentationListener(l) ==
    closures[l] = [m_event_type |-> EMusicInformationRetrieved, defers |-> NoDefer]

\* Both listeners are registered, one of each.
BothRegistered ==
    /\ Len(closures) = LiveListeners
    /\ \E m, p \in ListenerIds : IsMetadataListener(m) /\ IsPresentationListener(p)

\* Event e is a request with exactly one field, published by push_event when
\* the metadata listener was registered.
IsRequest(e) ==
    IF e \in EventIds
    THEN /\ events[e].origin = "push"
         /\ events[e].m_event_type = EAskRetrieveMusicInformation
         /\ events[e].m_event_arg = PathFile
         /\ Len(events[e].listeners) = 1
    ELSE FALSE

\* The events the listeners published when they were called with event e.
ResponsesTo(e) == {r \in EventIds : events[r].cause = <<e>>}

\* The number of calls of listener l with event r.
CallCount(l, r) == Len(SelectSeq(log, LAMBDA c : c.cb = l /\ c.ev = r))

\* The request has been through its batch, and the batch after it has called
\* the presentation listener once with the one response to it.
Answered(e) ==
    IF e \in EventIds
    THEN /\ stage[e] = "done"
         /\ \E r \in ResponsesTo(e) :
             /\ ResponsesTo(e) = {r}
             /\ events[r].m_event_type = EMusicInformationRetrieved
             /\ stage[r] = "done"
             /\ \A p \in ListenerIds : IsPresentationListener(p) => CallCount(p, r) = 1
    ELSE FALSE

\* Until the batch of the request has ended nothing is called with a
\* response to it, and the presentation listener is never called twice with
\* the same response.
C11_NotInTheSameBatch ==
    \A e \in EventIds : \A r \in ResponsesTo(e) :
        /\ stage[e] # "done" => CallsOf(r) = <<>> /\ stage[r] = "staged"
        /\ stage[e] = "done" => stage[r] # "staged"
        /\ \A p \in ListenerIds : CallCount(p, r) <= 1

\* The first snapshot taken after the batch of the request holds the response.
C11_InTheNextBatch ==
    \A e \in EventIds : \A r \in ResponsesTo(e) :
        (stage[r] = "merged" /\ \E d \in Dispatchers : pc'[d] = "invoking" /\ pc[d] = "update")
            => stage'[r] = "batch"

C11_OnceTakenAnswered ==
    \A e \in LiveEventIds :
        (IsRequest(e) /\ BothRegistered /\ stage[e] = "batch") ~> Answered(e)

\* What holds of the scenario from the snapshot that takes the request on.
C11_FromTheRequestsBatch ==
    /\ []C11_NotInTheSameBatch
    /\ [][C11_InTheNextBatch]_vars
    /\ C11_OnceTakenAnswered

\* C11: request/response.  With the metadata listener registered for
\* EAskRetrieveMusicInformation and the presentation listener registered for
\* EMusicInformationRetrieved, and a dispatcher launched, a published request
\* with exactly one field leads to the presentation listener being called
\* exactly once with an EMusicInformationRetrieved event, in the batch that
\* follows the batch of the request and not in the same batch.
C11_RequestResponse ==
    /\ []C11_NotInTheSameBatch
    /\ [][C11_InTheNextBatch]_vars
    /\ \A e \in LiveEventIds :
          (IsRequest(e) /\ BothRegistered /\ Launched) ~> Answered(e)

\* ---------------------------------------------------------------- C12
\* Event e carries a payload whose field count is not one.
IsMalformed(e) ==
    IF e \in EventIds THEN Len(events[e].m_event_arg) # Len(PathFile) ELSE FALSE

\* No event was published by a listener that was called with a malformed
\* event.
C12_NothingStaged ==
    \A e \in EventIds : IsMalformed(e) => ResponsesTo(e) = {}

\* A call with a malformed event ends by returning to update()'s loops, with
\* the Deferred Queue and the calls still to make as they were.
C12_Returns ==
    \A d \in Dispatchers :
        (/\ pc[d] = "in_callback"
         /\ pc'[d] # "in_callback"
         /\ IsMalformed(current_call[d][1].ev.id))
            => /\ pc'[d] = "invoking"
               /\ m_tmp_event_queue' = m_tmp_event_queue
               /\ batch_calls' = batch_calls
               /\ events' = events

\* The events in the batch of a dispatcher that is inside update().
InBatch == {e \in EventIds : stage[e] = "batch"}

\* An event whose batch has ended was given to every listener that was
\* registered for its kind when it was published.
C12_NoCallSkipped ==
    \A e \in EventIds : stage[e] = "done" => IsPrefix(events[e].listeners, CallsOf(e))

\* A batch that holds a malformed event comes to its end.
C12_BatchContinues ==
    (\E e \in InBatch : IsMalformed(e)) ~> (InBatch = {})

\* C12: the metadata listener ignores malformed requests.  Called with an
\* event whose payload has a field count other than one (none, two or more)
\* it returns without appending to the Deferred Queue and without an error,
\* and the dispatcher goes on with the remaining callbacks and events of the
\* batch.
C12_MalformedRequestIgnored ==
    /\ []C12_NothingStaged
    /\ [][C12_Returns]_vars
    /\ []C12_NoCallSkipped
    /\ C12_BatchContinues

\* A malformed request and a request with one field have been through a
\* batch; each was given to the metadata listener and then to a second
\* listener; only the second request was answered.
C12_Witness ==
    \E e, f \in EventIds :
        /\ e < f
        /\ IsMalformed(e) /\ ~IsMalformed(f)
        /\ events[e].m_event_type = EAskRetrieveMusicInformation
        /\ events[f].m_event_type = EAskRetrieveMusicInformation
        /\ stage[e] = "done" /\ stage[f] = "done"
        /\ Len(CallsOf(e)) = LiveListeners /\ CallsOf(f) = CallsOf(e)
        /\ IsMetadataListener(CallsOf(e)[1])
        /\ ResponsesTo(e) = {} /\ ResponsesTo(f) # {}

\* ---------------------------------------------------------------- C13
C13_OneBucketPerKind ==
    \A i, j \in 1..Len(m_register_event_listeners) :
        m_register_event_listeners[i].m_event_type
            = m_register_event_listeners[j].m_event_type => i = j

\* The buckets of a kind in registry reg.
BucketsOf(reg, event_type) ==
    {i \in 1..Len(reg) : reg[i].m_event_type = event_type}

\* A step that changes the registry is one register_listener call: its
\* callback goes to the tail of the bucket of its kind, or to a new bucket
\* at the end of the registry when the kind has none, and every bucket and
\* callback that was there stays where it was.
C13_Step ==
    LET reg == m_register_event_listeners
        n == Len(closures) + 1
    IN  (reg' # reg \/ closures' # closures) =>
            /\ Len(closures') = n
            /\ SubSeq(closures', 1, Len(closures)) = closures
            /\ LET event_type == closures'[n].m_event_type IN
                IF BucketsOf(reg, event_type) = {}
                THEN reg' = Append(reg, [m_event_type |-> event_type,
                                         callbacks |-> <<n>>])
                ELSE \E i \in BucketsOf(reg, event_type) :
                        reg' = [reg EXCEPT ![i].callbacks = Append(@, n)]

\* C13: the registry has at most one bucket per kind in every reachable
\* state; register_listener for a kind without a bucket creates the bucket
\* with that callback, for a kind with a bucket appends the callback at the
\* bucket's tail, and no step removes or reorders a bucket or a callback.
C13_RegistryShape == []C13_OneBucketPerKind /\ [][C13_Step]_vars

\* Two listeners of one kind are registered, with a batch taken in between:
\* the second went to the tail of the bucket the first created.
C13_Witness ==
    /\ Len(m_register_event_listeners) = 1
    /\ Len(m_register_event_listeners[1].callbacks) = MaxListeners
    /\ \E e \in EventIds : Len(events[e].listeners) = 1 /\ stage[e] = "done"

\* ---------------------------------------------------------------- C14
\* C14: on a little-endian target read_u128_from_file returns the sixteen
\* bytes of the file assembled least significant byte first: for every i in
\* 0..15, byte i of the file equals (result >> (8 * i)) & 0xFF.
C14_LittleEndianAssembly ==
    reader.pc = "returned" =>
        \A i \in 0..(U128Bytes - 1) :
            LowByte(Shr(reader.u128_value, 8 * i)) = reader.file[i + 1]

\* A call has returned for a file whose first byte is 0x00 and whose last
\* byte is 0xFF.
C14_Witness ==
    /\ reader.pc = "returned"
    /\ reader.file[1] = 0
    /\ reader.file[U128Bytes] = 255

\* ---------------------------------------------------------------- C15
\* C15 as claimed: no lost wakeup.  In no reachable state is a dispatcher
\* blocked in cvar.wait while the wake flag is true (a notification is sent
\* in the step that sets the flag, so none is still to come).
C15_NoLostWakeup ==
    \A d \in Dispatchers : pc[d] = "waiting" => ~m_need_update

\* ---------------------------------------------------------------- C16
\* The dispatchers whose thread has come to an end inside a callback: blocked
\* for ever on the mutex it holds, or unwound by a panic.
Stuck == {d \in Dispatchers : pc[d] \in {"deadlocked", "panicked"}}

\* The dispatchers inside a callback that publishes with push_event.
InDirectPublish ==
    {d \in InCallback : closures[current_call[d][1].cb].defers = DirectPublish}

\* C16 as claimed: a push_event issued from inside a listener, on the
\* dispatcher thread, acquires its locks and returns: no dispatcher is ever
\* deadlocked (or killed) by it.
C16_DirectPublishReturns == Stuck = {}

C16_HoldsTheBusMutex ==
    /\ \A d \in InDirectPublish : "this" \in held[d]
    /\ \A d \in Dispatchers : pc[d] = "deadlocked" =>
           held[d] = {"this"} /\ current_call[d][1].cb \in callback_lock

\* The call never returns to update()'s loops and publishes nothing, and
\* from then on no batch ends and no callback is called.
C16_NeverReturns ==
    /\ \A d \in InDirectPublish :
           /\ pc'[d] \in {"in_callback", "deadlocked", "panicked"}
           /\ m_event_list' = m_event_list
           /\ m_need_update' = m_need_update
    /\ \A d \in Stuck :
           /\ pc'[d] = pc[d]
           /\ InBatch' = InBatch
           /\ log' = log
           /\ m_event_list' = m_event_list

\* C16 as amended: a push_event issued from inside a listener, on the
\* dispatcher thread, never returns.  It needs the bus-wide mutex, which its
\* own thread holds since line 331: the thread blocks for ever or panics.
\* Nothing is published, the callback does not return, the batch is never
\* finished and no later callback is called.
C16_DirectPublishNeverReturns ==
    []C16_HoldsTheBusMutex /\ [][C16_NeverReturns]_vars

\* A dispatcher is deadlocked inside its batch while a second dispatcher is
\* ready to start one and a producer still has an event to publish.
C16_Witness ==
    /\ \E d, o \in Dispatchers : pc[d] = "deadlocked" /\ pc[o] = "update"
    /\ InBatch # {}
    /\ Produced < limit.events

\* ---------------------------------------------------------------- C17
\* The ids of the events of a queue.
IdsOf(queue) == {queue[n].id : n \in 1..Len(queue)}

\* The dispatchers between the snapshot of a batch and its end.
Invoking == {d \in Dispatchers : pc[d] \in {"invoking", "in_callback"}}

\* C17 as claimed: the live Pending Queue is cleared when the snapshot is
\* taken, so during the Invoking phase it holds none of the events of the
\* batch being processed.
C17_ClearedAtSnapshot ==
    Invoking # {} => IdsOf(m_event_list) \cap InBatch = {}

C17_KeptWhileInvoking ==
    Invoking # {} =>
        /\ IdsOf(m_event_list) = InBatch
        /\ Len(m_event_list) = Cardinality(InBatch)

C17_ClearedAtTheEnd ==
    \A d \in Invoking :
        pc'[d] = "merging" =>
            /\ batch_calls[d] = <<>> /\ pc[d] = "invoking"
            /\ IdsOf(m_event_list') \cap InBatch = {}

\* C17 as amended: at the start of a batch the dispatcher copies the Pending
\* Queue and leaves the live one as it is.  During the Invoking phase the
\* live Pending Queue holds exactly the events of the batch being processed;
\* it is cleared after the last callback of the batch has returned, in the
\* step that begins the merge.
C17_ClearedAfterInvoking ==
    []C17_KeptWhileInvoking /\ [][C17_ClearedAtTheEnd]_vars

\* A callback is running on the second event of a batch of two events.
C17_Witness ==
    /\ \E d \in InCallback : current_call[d][1].ev.id = MaxEventsShared
    /\ Cardinality(InBatch) = MaxEventsShared

\* ---------------------------------------------------------------- C18
\* While a batch runs, the Pending Queue and the set of events of the batch
\* stay as they are.
C18_FrozenWhileInvoking ==
    \A d \in Invoking :
        pc'[d] \in {"invoking", "in_callback"} =>
            /\ m_event_list' = m_event_list
            /\ InBatch' = InBatch

\* An event joins a batch only in the step that takes the batch's snapshot.
C18_JoinsAtSnapshot ==
    \A e \in EventIds :
        (stage[e] # "batch" /\ stage'[e] = "batch") =>
            \E d \in Dispatchers : pc[d] = "update" /\ pc'[d] = "invoking"

\* An event published by push_event is in the Pending Queue until a
\* snapshot has taken it; an event published by a callback is in the
\* Deferred Queue, and not in the Pending Queue, until the batch ends.
C18_WhereEventsAre ==
    \A e \in EventIds :
        /\ stage[e] = "pushed" => IsIn(e, m_event_list)
        /\ stage[e] = "staged" =>
               IsIn(e, m_tmp_event_queue) /\ ~IsIn(e, m_event_list)

\* C18: from the snapshot of a batch to its end-of-batch clear the content of
\* the Pending Queue is unchanged.  A push_event of another thread takes
\* effect only after the batch: it is not lost by the clear and does not
\* join the running batch; the events callbacks create go to the Deferred
\* Queue only.
C18_PendingQueueFrozen ==
    /\ [][C18_FrozenWhileInvoking]_vars
    /\ [][C18_JoinsAtSnapshot]_vars
    /\ []C18_WhereEventsAre

\* A batch has ended in which a callback published event r; a producer has
\* since published event f: the Pending Queue holds r, then f.
C18_Witness ==
    \E e, r, f \in EventIds :
        /\ stage[e] = "done" /\ r \in ResponsesTo(e)
        /\ events[f].origin = "push" /\ r < f
        /\ Len(m_event_list) = Len(<<r, f>>)
        /\ m_event_list[1].id = r /\ m_event_list[Len(m_event_list)].id = f

\* ---------------------------------------------------------------- C19
\* The listeners of the kind of event e whose register_listener call was
\* made before the snapshot of e's batch, in the order of registration.
SnapshotListeners(e) ==
    SelectSeq(RegisteredFor(events[e].m_event_type),
              LAMBDA l : l <= events[e].snapshot[1])

\* C19: a batch dispatches against the registry as it was at its snapshot.
\* While the batch of event e runs, the calls made with e are calls of
\* listeners registered before the snapshot, in order; when it has ended
\* every such listener of e's kind has been called with e, and no listener
\* registered after the snapshot has.
C19_SnapshotRegistry ==
    \A e \in EventIds :
        /\ stage[e] = "batch" => IsPrefix(CallsOf(e), SnapshotListeners(e))
        /\ stage[e] = "done" => CallsOf(e) = SnapshotListeners(e)

\* An event has been through a batch that called one listener with it; a
\* second listener of its kind, registered since, was not called with it.
C19_Witness ==
    \E e \in EventIds :
        /\ stage[e] = "done"
        /\ Len(CallsOf(e)) = 1
        /\ Len(RegisteredFor(events[e].m_event_type)) = MaxListeners

\* ---------------------------------------------------------------- C20
\* The number of copies of event e in a queue.
Copies(e, queue) == Len(SelectSeq(queue, LAMBDA event : event.id = e))

\* The events that were appended to the Deferred Queue.
Deferred == {e \in EventIds : events[e].origin \in {"callback", "handle"}}

\* The dispatchers between the copy of line 305 and the clear of line 307.
Merging == {d \in Dispatchers : pc[d] = "merging"}

\* From the copy to the return of update() the Pending Queue holds exactly
\* the events of the Deferred Queue, in their order: no event joins the
\* Deferred Queue between the copy and the clear.
C20_MergeTime == Merging # {} => m_event_list = m_tmp_event_queue

\* The step in which update() returns leaves in the Pending Queue the events
\* the Deferred Queue held, in their order, and the Deferred Queue empty.
C20_Return ==
    \A d \in Dispatchers :
        (pc[d] = "merging" /\ pc'[d] = "recompute") =>
            /\ m_event_list' = m_tmp_event_queue
            /\ m_tmp_event_queue' = <<>>

\* An event leaves the Deferred Queue only when the Pending Queue has its
\* copy, and never comes back to it.
C20_MovedOnce ==
    \A e \in Deferred :
        /\ (Copies(e, m_tmp_event_queue) = 1 /\ Copies(e, m_tmp_event_queue') = 0)
               => Copies(e, m_event_list') = 1
        /\ Copies(e, m_tmp_event_queue) = 0 => Copies(e, m_tmp_event_queue') = 0

\* Neither queue ever holds two copies of an event; outside the merge an
\* event appended to the Deferred Queue is in exactly one of the two queues
\* until its batch has ended, and in none afterwards.
C20_OneCopy ==
    \A e \in Deferred :
        /\ Copies(e, m_tmp_event_queue) <= 1
        /\ Copies(e, m_event_list) <= 1
        /\ Merging = {} =>
               Copies(e, m_tmp_event_queue) + Copies(e, m_event_list)
                   = IF stage[e] = "done" THEN 0 ELSE 1

\* C20: end-of-batch merge.  When update() returns the Pending Queue holds
\* exactly the events that were in the Deferred Queue at merge time, in
\* their order, and the Deferred Queue is empty; whatever the interleaving
\* with push_event_in_tmp_queue calls of other threads, an event appended
\* to the Deferred Queue is moved to the Pending Queue once: the clear never
\* drops it and it is never copied twice.
C20_EndOfBatchMerge ==
    /\ []C20_MergeTime
    /\ [][C20_Return]_vars
    /\ [][C20_MovedOnce]_vars
    /\ []C20_OneCopy

\* update() has just returned: the Pending Queue holds an event a callback
\* published and an event another thread appended to the Deferred Queue
\* while the batch ran, and a third event has been appended to the Deferred
\* Queue since.
C20_Witness ==
    /\ \E d \in Dispatchers : pc[d] = "recompute"
    /\ \E e, f, g \in Deferred :
        /\ events[e].origin = "callback" /\ events[f].origin = "handle" /\ e < f
        /\ IdsOf(m_event_list) = {e, f}
        /\ IdsOf(m_tmp_event_queue) = {g}

\* ---------------------------------------------------------------- C21
\* The dispatchers inside update().
InUpdate ==
    {d \in Dispatchers : pc[d] \in {"invoking", "in_callback", "merging", "deadlocked"}}

\* The dispatchers between the return of update() (line 331) and the
\* assignment of the flag (line 333).
BeforeAssign == {d \in Dispatchers : pc[d] \in {"recompute", "assign"}}

\* C21 as claimed: in every state where no thread is inside push_event,
\* register_listener or update, a non-empty Pending Queue implies that the
\* wake flag is true.
C21_FlagCoversQueue ==
    (InUpdate = {} /\ m_event_list # <<>>) => m_need_update

\* Outside update() and outside the window of lines 331-333 of every
\* dispatcher, a non-empty Pending Queue has the wake flag true.
C21_FlagCoversQueueAfterAssign ==
    (InUpdate = {} /\ BeforeAssign = {} /\ ~Poisoned /\ m_event_list # <<>>) => m_need_update

\* With one dispatcher the flag also covers the queue inside the window.
C21_OneDispatcher ==
    Cardinality({d \in Dispatchers : pc[d] # "unlaunched"}) <= 1 => C21_FlagCoversQueue

\* The assignment of line 333 gives the flag the value "Pending Queue not
\* empty" of the moment of the assignment: no push_event comes between the
\* test of the queue and the assignment.
C21_Assign ==
    \A d \in Dispatchers :
        (pc[d] = "assign" /\ pc'[d] # "assign") =>
            /\ m_need_update' = (m_event_list # <<>>)
            /\ m_event_list' = m_event_list
            /\ pc'[d] = "loop"

\* The dispatcher that reads the flag (lines 324-325, 328) goes on to
\* update() when it is true and to wait() when it is not.
C21_Transition ==
    \A d \in Dispatchers :
        (pc[d] \in {"read_flag", "woken"} /\ pc'[d] # pc[d]) =>
            pc'[d] = IF m_need_update THEN "update" ELSE "before_wait"

\* C21 as amended: after every batch the dispatcher sets the wake flag to
\* "Pending Queue non-empty" atomically with respect to push_event; in
\* every state where no thread is inside push_event, register_listener or
\* update and no dispatcher is between the return of update and that
\* assignment, a non-empty Pending Queue implies that the wake flag is true
\* (with one dispatcher, inside that window too); the dispatcher then goes
\* on to the next batch if the flag it reads is true and parks otherwise.
C21_WakeFlagRecomputed ==
    /\ []C21_FlagCoversQueueAfterAssign
    /\ []C21_OneDispatcher
    /\ [][C21_Assign]_vars
    /\ [][C21_Transition]_vars

\* A batch has ended and merged an event a callback published; the
\* dispatcher has assigned the flag, which is true, and is back at the top
\* of its loop.
C21_Witness ==
    /\ InUpdate = {} /\ BeforeAssign = {}
    /\ \E d \in Dispatchers : pc[d] = "loop"
    /\ m_need_update
    /\ m_event_list # <<>>
    /\ \A n \in 1..Len(m_event_list) : stage[m_event_list[n].id] = "merged"

\* ---------------------------------------------------------------- C22
\* The step is a push_event call: it publishes event Len(events) + 1.
IsPushEvent == Len(events') = Len(events) + 1 /\ events'[Len(events')].origin = "push"

\* push_event appends its event at the tail of the Pending Queue, sets the
\* wake flag, wakes one parked dispatcher if there is one, and leaves the
\* registry and the Deferred Queue as they are.
C22_PushEvent ==
    IsPushEvent =>
        LET new == events'[Len(events')] IN
        /\ m_event_list' = m_event_list \o
               <<QuEvent(Len(events'), new.m_event_type, new.m_event_arg)>>
        /\ m_need_update'
        /\ pc' \in notify_one(pc)
        /\ m_register_event_listeners' = m_register_event_listeners
        /\ m_tmp_event_queue' = m_tmp_event_queue

\* The places in the log of the calls made with event e.
LogPlaces(e) == {i \in 1..Len(log) : log[i].ev = e}

\* While a batch runs, if a callback has been invoked with the event at a
\* later position of the Pending Queue, every callback of the event at an
\* earlier position has been invoked before it and has returned.
C22_InQueueOrder ==
    Invoking # {} =>
        \A i, j \in 1..Len(m_event_list) :
            LET e == m_event_list[i].id
                f == m_event_list[j].id
            IN  (i < j /\ CallsOf(f) # <<>>) =>
                    /\ CallsOf(e) = SnapshotListeners(e)
                    /\ \A d \in InCallback : current_call[d][1].ev.id # e
                    /\ \A m \in LogPlaces(e), n \in LogPlaces(f) : m < n

\* C22: push_event appends its event at the tail of the Pending Queue, sets
\* the wake flag to true and notifies the wake condition, leaving the
\* registry and the Deferred Queue unchanged; within a batch the events are
\* processed in Pending Queue order, and all callbacks for the event at one
\* position return before any callback for the event at the next is invoked.
C22_PublishAndBatchOrder == [][C22_PushEvent]_vars /\ []C22_InQueueOrder

\* Two events were pushed, the second on a non-empty Pending Queue; their
\* batch has called a listener with the first and is running a callback for
\* the second.
C22_Witness ==
    /\ Len(m_event_list) >= MaxEventsShared
    /\ \E d \in InCallback : current_call[d][1].ev.id = m_event_list[MaxEventsShared].id
    /\ CallsOf(m_event_list[1].id) # <<>>
    /\ \A n \in 1..Len(m_event_list) : events[m_event_list[n].id].origin = "push"

\* ---------------------------------------------------------------- C23
\* The dispatchers whose thread a panic has ended.
Panicked == {d \in Dispatchers : pc[d] = "panicked"}

\* The dispatchers whose thread ended by the panic of a callback.
PanickedInCallback == {d \in Panicked : current_call[d] # <<>>}

\* Nothing catches the panic: the thread stays dead, with the calls its
\* batch still had to make.
C23_NotCaught ==
    \A d \in Panicked :
        /\ pc'[d] = "panicked"
        /\ batch_calls'[d] = batch_calls[d]
        /\ current_call'[d] = current_call[d]

\* Once a callback has panicked no callback is invoked, by any dispatcher:
\* none of those that came later in its batch, and none in a later batch.
C23_NoLaterCallback == Panicked # {} => log' = log

\* The clear and the merge of the end of the batch are not performed, then
\* or later: the Pending Queue keeps the events of the batch, no event of
\* the batch is done, and the Deferred Queue loses no event.
C23_NoClearNoMerge ==
    Panicked # {} =>
        /\ m_event_list' = m_event_list
        /\ IsPrefix(m_tmp_event_queue, m_tmp_event_queue')
        /\ \A e \in EventIds : stage'[e] = stage[e]

\* The batch of a panicked callback is where the panic left it.
C23_BatchLeftAsItWas ==
    \A d \in PanickedInCallback :
        /\ InBatch = IdsOf(m_event_list)
        /\ current_call[d][1].ev.id \in InBatch
        /\ \A n \in 1..Len(batch_calls[d]) :
               [cb |-> batch_calls[d][n].cb, ev |-> batch_calls[d][n].ev.id]
                   \notin {log[i] : i \in 1..Len(log)}
        /\ \A e \in EventIds : stage[e] = "staged" => IsIn(e, m_tmp_event_queue)

\* C23: a callback failure is fatal and not isolated.  If a callback
\* panics during a batch the panic is not caught, no callback that comes
\* later in the batch's iteration order is invoked, the end-of-batch clear
\* and merge are not performed, and no callback is invoked in any later
\* batch.
C23_CallbackFailureIsFatal ==
    /\ [][C23_NotCaught]_vars
    /\ [][C23_NoLaterCallback]_vars
    /\ [][C23_NoClearNoMerge]_vars
    /\ []C23_BatchLeftAsItWas

\* The listener of audio_reader/mod.rs answered the first request of a
\* batch of three and panicked on the second, whose file it could not open:
\* the third request is still to be given to it and the answer to the first
\* is in the Deferred Queue.
C23_Witness ==
    \E d \in PanickedInCallback :
        /\ closures[current_call[d][1].cb].defers \in QuEventType
        /\ Len(m_event_list) = MaxEvents
        /\ current_call[d][1].ev.id = m_event_list[MaxEvents - 1].id
        /\ batch_calls[d] # <<>>
        /\ m_tmp_event_queue # <<>>

\* ---------------------------------------------------------------- C24
\* The value of a decimal digit, and -1 for any other character.
DigitValue(c) ==
    IF \E n \in 1..Len(Digits) : Digits[n] = c
    THEN (CHOOSE n \in 1..Len(Digits) : Digits[n] = c) - 1
    ELSE -1

\* The u32 a string of decimal digits denotes, read from the left.
RECURSIVE DecimalU32(_)
DecimalU32(str) ==
    IF str = <<>> THEN AsU32(0, 0)
    ELSE LET front == DecimalU32(SubSeq(str, 1, Len(str) - 1))
             low == front.lo * 10 + DigitValue(str[Len(str)])
         IN  AsU32(front.hi * 10 + low \div U16, low % U16)

\* str is the decimal representation of the number v: decimal digits only,
\* no leading zero, denoting v.
IsDecimalOf(str, v) ==
    /\ str # <<>>
    /\ \A n \in 1..Len(str) : DigitValue(str[n]) >= 0
    /\ Len(str) > 1 => str[1] # "0"
    /\ DecimalU32(str) = v

\* C24: AudioInformation.convert_to_key_map returns, for every
\* AudioInformation value, exactly ten triples in the order music_name,
\* music_type, artist_name, track_number, album, date, duration, track_rate,
\* channel_count, bits_per_sample; the seven strings are carried as they
\* are and the three numbers (rate, channel count, bits per sample) as
\* their decimal string representation.
C24_KeyMap ==
    conversion.pc = "returned" =>
        LET self == conversion.self
            key_map == conversion.key_map
        IN  /\ Len(key_map) = Len(AudioInformation)
            /\ [n \in 1..Len(key_map) |-> key_map[n][1]] = AudioInformation
            /\ \A n \in 1..Len(key_map) : key_map[n][2] = String
            /\ <<key_map[1][3], key_map[2][3], key_map[3][3], key_map[4][3],
                  key_map[5][3], key_map[6][3], key_map[7][3]>>
                   = <<self.m_str_music_name, self.m_str_music_type,
                       self.m_str_artist_name, self.m_str_tracknumber,
                       self.m_str_album, self.m_str_date, self.m_str_duration>>
            /\ IsDecimalOf(key_map[8][3], self.m_rate)
            /\ IsDecimalOf(key_map[9][3], AsU32(0, self.m_channel_count))
            /\ IsDecimalOf(key_map[10][3], AsU32(0, self.m_bits_per_sample))

\* The key map of a value with rate 4294967295, two channels and sixteen
\* bits per sample has been returned.
C24_Witness ==
    /\ conversion.pc = "returned"
    /\ conversion.self.m_rate = AsU32(U16 - 1, U16 - 1)
    /\ conversion.key_map[8][3] = <<"4", "2", "9", "4", "9", "6", "7", "2", "9", "5">>
    /\ conversion.key_map[9][3] = <<"2">>
    /\ conversion.key_map[10][3] = <<"1", "6">>

\* ---------------------------------------------------------------- C25
\* Thread t has called lock() on a mutex that is owned.
Waiting(t) == IF Needs(t) = NoLock THEN FALSE ELSE threads.owner[Needs(t)] # NoThread

\* The owner of the mutex thread t waits for.
WaitsFor(t) == threads.owner[Needs(t)]

\* Following who waits for whom from thread from leads to thread to in at
\* most n steps.
RECURSIVE Reaches(_, _, _)
Reaches(from, to, n) ==
    IF n = 0 \/ ~Waiting(from) THEN FALSE
    ELSE WaitsFor(from) = to \/ Reaches(WaitsFor(from), to, n - 1)

\* No set of threads wait on each other's locks (nor a thread on its own).
C25_NoWaitCycle == \A t \in Threads : ~Reaches(t, t, Cardinality(Threads))

\* Every thread is again and again at a place where it needs no lock: each
\* lock() it called has returned.
C25_EveryLockIsAcquired == \A t \in Threads : []<>(Needs(t) = NoLock)

\* C25: deadlock freedom.  With callbacks that terminate and publish only
\* through the deferred handle, no interleaving of push_event,
\* register_listener, push_event_in_tmp_queue (from callbacks and from other
\* threads) and the steps of the dispatchers reaches a state in which
\* threads wait on each other's locks for ever (bus-wide mutex, Pending
\* Queue lock, registry lock, wake-flag lock, the two Deferred Queue locks,
\* the callbacks' locks); every lock acquisition eventually succeeds.
C25_DeadlockFreedom == []C25_NoWaitCycle /\ C25_EveryLockIsAcquired

\* A dispatcher is in the callback of audio_reader/mod.rs, called with a
\* request that came through the handle, and has locked the temporary queue;
\* the producer and the other dispatcher each wait for the bus-wide mutex it
\* owns.
C25_Witness ==
    \E d, o \in LockDispatchers :
        /\ threads.at[d] = "callback_push"
        /\ threads.owner[<<"m_tmp_event_queue">>] = d
        /\ Waiting(Producer) /\ WaitsFor(Producer) = d
        /\ Waiting(o) /\ WaitsFor(o) = d

\* ------------------------------------------------------------------- C26
\* The origin of the event at place i of a queue.
OriginAt(queue, i) == events[queue[i].id].origin

\* A batch takes its snapshot in this step.
TakesSnapshot == \E d \in Dispatchers : pc[d] = "update" /\ pc'[d] = "invoking"

\* A batch copies the Deferred Queue onto the Pending Queue in this step.
CopiesDeferred == \E d \in Dispatchers : pc[d] = "invoking" /\ pc'[d] = "merging"

\* The events a callback of the running batch has deferred, in the order of
\* the deferrals (the ids are given in the order of the publish calls).
DeferredByBatch ==
    {e \in EventIds : /\ events[e].origin = "callback"
                      /\ stage[events[e].cause[1]] = "batch"}

\* The merge that ends batch N puts on the cleared Pending Queue the events
\* its callbacks deferred, all of them and no other deferred by a callback,
\* in the order of the deferrals, and no event published by push_event.
C26_Merge ==
    CopiesDeferred =>
        /\ \A i \in 1..Len(m_event_list') : OriginAt(m_event_list', i) # "push"
        /\ {m_event_list'[i].id : i \in 1..Len(m_event_list')}
               \cap {e \in EventIds : events[e].origin = "callback"} = DeferredByBatch
        /\ \A i, j \in 1..Len(m_event_list') :
               (i < j /\ OriginAt(m_event_list', i) = "callback"
                      /\ OriginAt(m_event_list', j) = "callback")
                   => m_event_list'[i].id < m_event_list'[j].id

\* Between that merge and the next snapshot push_event puts its events behind
\* them: in the snapshot batch N+1 takes, the events that came through the
\* Deferred Queue are at the head, those a callback deferred in the order of
\* their deferrals, and every event published by push_event is behind them,
\* in the order of the push_event calls.
C26_Snapshot ==
    TakesSnapshot =>
        \A i, j \in 1..Len(m_event_list) :
            i < j =>
                /\ OriginAt(m_event_list, i) = "push" => OriginAt(m_event_list, j) = "push"
                /\ OriginAt(m_event_list, i) = OriginAt(m_event_list, j)
                       /\ OriginAt(m_event_list, i) \in {"push", "callback"}
                   => m_event_list[i].id < m_event_list[j].id

\* No listener is called with a later event of push_event and afterwards
\* with an earlier one.
C26_PushOrder ==
    \A m, n \in 1..Len(log) :
        (/\ m < n
         /\ log[m].cb = log[n].cb
         /\ events[log[m].ev].origin = "push"
         /\ events[log[n].ev].origin = "push")
            => log[m].ev <= log[n].ev

\* C26: the events deferred by callbacks during batch N are at the head of
\* the snapshot of batch N+1 in the order of their deferrals, ahead of every
\* event published with push_event since batch N took its snapshot; and two
\* events published by push_event in the order E1 then E2 are never delivered
\* to a listener in the order E2 then E1.
C26_CrossBatchOrdering ==
    [][C26_Merge /\ C26_Snapshot]_vars /\ []C26_PushOrder

\* A callback deferred an event; two events were then published by
\* push_event; the next batch has called one listener with the deferred
\* event, then with the first of the two, then with the second.
C26_Witness ==
    \E a, b, c \in 1..Len(log) :
        /\ a < b /\ b < c
        /\ log[a].cb = log[b].cb /\ log[b].cb = log[c].cb
        /\ events[log[a].ev].origin = "callback"
        /\ events[log[b].ev].origin = "push"
        /\ events[log[c].ev].origin = "push"
        /\ log[a].ev < log[b].ev /\ log[b].ev < log[c].ev

\* ------------------------------------------------------------------- C27
\* The dispatcher threads spawned so far.
Spawned == {d \in Dispatchers : pc[d] # "unlaunched"}

\* The dispatcher whose batch is running, or was when its callback panicked.
BatchOwners == InUpdate \cup PanickedInCallback

\* A call of launch spawns one more dispatcher thread and leaves the other
\* threads where they are.
C27_LaunchSpawns ==
    Spawned' # Spawned =>
        /\ Spawned \subseteq Spawned'
        /\ Cardinality(Spawned') = Cardinality(Spawned) + 1
        /\ \A d \in Spawned : pc'[d] = pc[d]
        /\ \A d \in Spawned' \ Spawned : pc'[d] = "loop"

\* Two batches never run at the same time, and the events of a snapshot
\* belong to the one batch that runs.
C27_OneBatch ==
    /\ Cardinality(InUpdate) <= 1
    /\ InBatch # {} => Cardinality(BatchOwners) = 1

\* A snapshot takes every event of the Pending Queue, none of which has been
\* in a snapshot before; an event stays with the dispatcher that took it; a
\* callback is called only with an event of the snapshot of the running
\* batch, by the dispatcher that took it; and the clear that ends a batch
\* removes from the Pending Queue only events of its snapshot.
C27_OneSnapshot ==
    /\ TakesSnapshot =>
           /\ \A i \in 1..Len(m_event_list) :
                  /\ stage[m_event_list[i].id] \notin {"batch", "done"}
                  /\ stage'[m_event_list[i].id] = "batch"
           /\ InBatch = {}
    /\ \A e \in InBatch : stage'[e] = "batch" => BatchOwners' = BatchOwners
    /\ \A e \in EventIds : stage[e] = "done" => stage'[e] = "done"
    /\ Len(log') > Len(log) =>
           /\ log'[Len(log')].ev \in InBatch
           /\ \E d \in BatchOwners : pc[d] = "invoking" /\ pc'[d] = "in_callback"
    /\ \A i \in 1..Len(m_event_list) :
           ~IsIn(m_event_list[i].id, m_event_list') =>
               /\ m_event_list[i].id \in InBatch
               /\ stage'[m_event_list[i].id] = "done"

\* C27: launch may be called more than once, each call spawning another
\* dispatcher thread; even then every published event is in the snapshot of
\* one batch of one dispatcher (no event is delivered by two dispatchers, no
\* event leaves the Pending Queue without having been in a snapshot), and
\* two batches never run at the same time.
C27_SeveralDispatchers ==
    [][C27_LaunchSpawns /\ C27_OneSnapshot]_vars /\ []C27_OneBatch

\* launch was called twice; one dispatcher runs a batch and has called a
\* listener, the other has read the wake flag true and is about to call
\* update; an earlier batch has ended.
C27_Witness ==
    \E d, o \in Dispatchers :
        /\ d # o
        /\ pc[d] = "invoking" /\ pc[o] = "update"
        /\ \E e \in InBatch : CallsOf(e) # <<>>
        /\ \E e \in EventIds : stage[e] = "done"

\* ------------------------------------------------------------------- C28
\* The dispatchers that are parked, or past the test of line 319 and not
\* yet back at it.
PastLoopTest ==
    {d \in Dispatchers :
        pc[d] \in {"read_flag", "before_wait", "waiting", "woken", "update", "invoking",
                   "in_callback", "merging", "recompute", "assign"}}

\* The stop flag is read at the top of the loop only: with the flag set, a
\* dispatcher that comes back to line 319 leaves the loop.
C28_ReadAtTheTop ==
    \A d \in Dispatchers :
        (m_stop_update /\ pc[d] = "loop" /\ pc'[d] # "loop")
            => pc'[d] \in {"stopped", "panicked"}

\* C28 as claimed: once the stop flag has been set, the dispatcher starts at
\* most one more batch before its loop exits.  A dispatcher that is parked,
\* or past the test of the flag, when stop sets it runs one more update and
\* leaves the loop when it is back at the top; the loop of every dispatcher
\* of the bus exits.
C28_OneMoreBatchThenExit ==
    /\ [][C28_ReadAtTheTop]_vars
    /\ [](m_stop_update => <>(\A d \in 1..limit.dispatchers : pc[d] = "stopped"))

\* What the code does instead: the stop flag is never set while a dispatcher
\* is parked or past the test of line 319, and no dispatcher leaves its loop
\* through the flag.
C28_StopNeverReachesADispatcher ==
    /\ m_stop_update => PastLoopTest = {}
    /\ \A d \in Dispatchers : pc[d] # "stopped"

\* ------------------------------------------------------------------- C29
\* The events that were in the snapshot of a batch when no listener was
\* registered for their kind.
Unheard ==
    {e \in EventIds : stage[e] \in {"batch", "done"} /\ SnapshotListeners(e) = <<>>}

\* No callback is ever invoked with such an event, whoever registers for its
\* kind later, and once its batch has ended it is in neither queue.
C29_NeverDelivered ==
    \A e \in Unheard :
        /\ CallsOf(e) = <<>>
        /\ \A d \in Dispatchers :
               /\ \A n \in 1..Len(batch_calls[d]) : batch_calls[d][n].ev.id # e
               /\ current_call[d] # <<>> => current_call[d][1].ev.id # e
        /\ stage[e] = "done" => ~IsIn(e, m_event_list) /\ ~IsIn(e, m_tmp_event_queue)

\* The end of the batch removes every event of its snapshot from the Pending
\* Queue; an event is in the snapshot of at most one batch: a snapshot holds
\* no event that was in one before, and an event whose batch has ended
\* stays so.
C29_RemovedAtTheEnd ==
    /\ CopiesDeferred =>
           \A e \in InBatch : stage'[e] = "done" /\ ~IsIn(e, m_event_list')
    /\ TakesSnapshot =>
           \A i \in 1..Len(m_event_list) : m_event_list[i].id \notin InBatch
                                            /\ stage[m_event_list[i].id] # "done"
    /\ \A e \in EventIds :
           /\ stage[e] = "done" => stage'[e] = "done"
           /\ stage[e] = "batch" => stage'[e] \in {"batch", "done"}
           /\ e \in Unheard => e \in Unheard'

\* C29: an event whose kind has no registered listener when its batch takes
\* the registry snapshot is removed from the Pending Queue at the end of
\* that batch without any callback being invoked, and is never delivered
\* afterwards, even to a listener registered for that kind later; each
\* published event is in the snapshot of at most one batch.
C29_NoListenerNoDelivery == []C29_NeverDelivered /\ [][C29_RemovedAtTheEnd]_vars

\* An event went through a batch with no listener for its kind; a listener
\* was then registered for that kind and has been called with a later event
\* of the kind.
C29_Witness ==
    \E e \in Unheard, f \in EventIds :
        /\ stage[e] = "done"
        /\ e < f
        /\ events[f].m_event_type = events[e].m_event_type
        /\ CallsOf(f) # <<>>
        /\ CallsOf(e) = <<>>

====
